---- MODULE Spec2Model ----
(***************************************************************************)
(* Trace-to-code translation engine of the framework-migration tool:       *)
(* the Playwright and the Cypress converter (src/converters).              *)
(*                                                                         *)
(* JavaScript strings are TLA+ strings; the i-th character of s is         *)
(* SubSeq(s, i, i).  A JavaScript value read from a decoded trace line is  *)
(* a record [t, s, n]: its type tag, its text (strings) and its number     *)
(* (numbers; 1/0 for booleans).                                            *)
(***************************************************************************)
EXTENDS Integers, Sequences, FiniteSets, TLC

(***************************************************************************)
(* Bounds of the model.                                                    *)
(***************************************************************************)
\* longest locator value X drawn for the locator parser
MaxValueLen == 3
\* longest trace (number of lines) a conversion run reads
MaxLines == 2
\* longest navigation trace a conversion run reads
MaxNavLines == 4

(***************************************************************************)
(* JavaScript values.                                                      *)
(***************************************************************************)
Undefined == [t |-> "undefined", s |-> "", n |-> 0]
Null == [t |-> "null", s |-> "", n |-> 0]
Str(s) == [t |-> "string", s |-> s, n |-> 0]
Num(n) == [t |-> "number", s |-> "", n |-> n]
Bool(b) == [t |-> "boolean", s |-> "", n |-> IF b THEN 1 ELSE 0]
Obj == [t |-> "object", s |-> "", n |-> 0]

\* ToBoolean: undefined, null, "", 0 and false are falsy
Truthy(v) ==
  CASE v.t = "string" -> v.s # ""
    [] v.t = "number" -> v.n # 0
    [] v.t = "boolean" -> v.n = 1
    [] v.t = "object" -> TRUE
    [] OTHER -> FALSE

(***************************************************************************)
(* String primitives of JavaScript.                                        *)
(***************************************************************************)
CharAt(s, i) == SubSeq(s, i, i)

\* s has p at position i (1-based)
StartsWithAt(s, p, i) ==
  /\ i >= 1
  /\ i + Len(p) - 1 <= Len(s)
  /\ SubSeq(s, i, i + Len(p) - 1) = p

StartsWith(s, p) == StartsWithAt(s, p, 1)

MinOf(S) == CHOOSE m \in S : \A o \in S : m <= o

\* position of the first occurrence of p in s at or after from, 0 if none
IndexOf(s, p, from) ==
  LET I == {i \in from..Len(s) : StartsWithAt(s, p, i)}
  IN IF I = {} THEN 0 ELSE MinOf(I)

Includes(s, p) == IndexOf(s, p, 1) # 0

\* s.replace(p, r) with a string pattern: the first occurrence only
ReplaceFirst(s, p, r) ==
  LET i == IndexOf(s, p, 1)
  IN IF i = 0 THEN s
     ELSE SubSeq(s, 1, i - 1) \o r \o SubSeq(s, i + Len(p), Len(s))

\* s.replace(/[cs]/g, r): every character of s that is in cs becomes r
RECURSIVE ReplaceAllChars(_, _, _)
ReplaceAllChars(s, cs, r) ==
  IF s = "" THEN ""
  ELSE (IF Head(s) \in cs THEN r ELSE Head(s)) \o ReplaceAllChars(Tail(s), cs, r)

\* the regular-expression dot: any run of characters without a line break
DotRun(s) == ~ Includes(s, "\n") /\ ~ Includes(s, "\r")

(***************************************************************************)
(* Locator parser.                                                         *)
(***************************************************************************)
\* target.match(/\[\[.*?\] -> (.+?)\]/): leftmost start, lazy quantifiers
LocatorEnds(t, g) ==
  {k \in (g + 1)..Len(t) : CharAt(t, k) = "]" /\ DotRun(SubSeq(t, g, k - 1))}

LocatorArrows(t, i) ==
  {j \in (i + 2)..Len(t) :
     /\ StartsWithAt(t, "] -> ", j)
     /\ DotRun(SubSeq(t, i + 2, j - 1))
     /\ LocatorEnds(t, j + 5) # {}}

LocatorStarts(t) ==
  {i \in 1..Len(t) : StartsWithAt(t, "[[", i) /\ LocatorArrows(t, i) # {}}

cleanLocatorMatch(t) ==
  IF LocatorStarts(t) = {} THEN [matched |-> FALSE, g1 |-> ""]
  ELSE LET i == MinOf(LocatorStarts(t))
           j == MinOf(LocatorArrows(t, i))
           k == MinOf(LocatorEnds(t, j + 5))
       IN [matched |-> TRUE, g1 |-> SubSeq(t, j + 5, k - 1)]

\* the dispatch on the prefix of the captured locator part
renderLocatorPart(locatorPart) ==
  IF StartsWith(locatorPart, "name: ")
    THEN "[name=\"" \o ReplaceFirst(locatorPart, "name: ", "") \o "\"]"
  ELSE IF StartsWith(locatorPart, "css selector: ")
    THEN ReplaceFirst(locatorPart, "css selector: ", "")
  ELSE IF StartsWith(locatorPart, "xpath: ")
    THEN "xpath=" \o ReplaceFirst(locatorPart, "xpath: ", "")
  ELSE IF StartsWith(locatorPart, "tag name: ")
    THEN ReplaceFirst(locatorPart, "tag name: ", "")
  ELSE IF StartsWith(locatorPart, "id: ")
    THEN "#" \o ReplaceFirst(locatorPart, "id: ", "")
  ELSE IF StartsWith(locatorPart, "class: ")
    THEN "." \o ReplaceFirst(locatorPart, "class: ", "")
  ELSE locatorPart

\* extractCleanSelector without the test for a falsy target
extractCleanSelector_NoFalsyTest(target) ==
  IF target.t # "string" THEN [throws |-> TRUE, value |-> ""]
  ELSE LET m == cleanLocatorMatch(target.s)
       IN IF m.matched
            THEN [throws |-> FALSE, value |-> renderLocatorPart(m.g1)]
          ELSE IF StartsWith(target.s, "http") \/ StartsWith(target.s, "[http")
            THEN [throws |-> FALSE,
                  value |-> ReplaceAllChars(target.s, {"[", "]"}, "")]
          ELSE [throws |-> FALSE, value |-> target.s]

\* extractCleanSelector(target): [throws, value].  A truthy target that is
\* not a string has no match method: the call raises a TypeError.
extractCleanSelector(target) ==
  IF ~ Truthy(target) THEN [throws |-> FALSE, value |-> ""]
  ELSE IF target.t # "string" THEN [throws |-> TRUE, value |-> ""]
  ELSE LET m == cleanLocatorMatch(target.s)
       IN IF m.matched
            THEN [throws |-> FALSE, value |-> renderLocatorPart(m.g1)]
          ELSE IF StartsWith(target.s, "http") \/ StartsWith(target.s, "[http")
            THEN [throws |-> FALSE,
                  value |-> ReplaceAllChars(target.s, {"[", "]"}, "")]
          ELSE [throws |-> FALSE, value |-> target.s]

(***************************************************************************)
(* Value conversions used by the template literals.                        *)
(***************************************************************************)
RECURSIVE NumStr(_)
NumStr(n) ==
  IF n < 10 THEN SubSeq("0123456789", n + 1, n + 1)
  ELSE NumStr(n \div 10) \o SubSeq("0123456789", (n % 10) + 1, (n % 10) + 1)

\* ToString of a decoded JSON value, as `${v}` and property keys compute it
JsToString(v) ==
  CASE v.t = "string" -> v.s
    [] v.t = "number" -> NumStr(v.n)
    [] v.t = "boolean" -> IF v.n = 1 THEN "true" ELSE "false"
    [] v.t = "null" -> "null"
    [] v.t = "object" -> "[object Object]"
    [] OTHER -> "undefined"

\* Set.prototype.has on a set of strings
SetHas(S, v) == v.t = "string" /\ v.s \in S

\* the selector embedded as it is
escapeQuotes_None(s) == s

\* s.replace(/"/g, '\\"')
escapeQuotes(s) == ReplaceAllChars(s, {"\""}, "\\\"")

(***************************************************************************)
(* Heuristics shared by the two converters.                                *)
(***************************************************************************)
\* the heuristic with the name rule tested first
guessInputValue_NameFirst(selector) ==
  IF Includes(selector, "name") THEN "John Doe"
  ELSE IF Includes(selector, "password") THEN "testPassword123"
  ELSE IF Includes(selector, "email") THEN "test@example.com"
  ELSE IF Includes(selector, "text") THEN "Sample text input"
  ELSE IF Includes(selector, "textarea") THEN "This is sample textarea content"
  ELSE "test-value"

guessInputValue(selector) ==
  IF Includes(selector, "password") THEN "testPassword123"
  ELSE IF Includes(selector, "email") THEN "test@example.com"
  ELSE IF Includes(selector, "text") THEN "Sample text input"
  ELSE IF Includes(selector, "textarea") THEN "This is sample textarea content"
  ELSE IF Includes(selector, "name") THEN "John Doe"
  ELSE "test-value"

\* selector.match(/^(.+?) option/): the shortest non-empty prefix that is
\* followed by " option"
parentMatch(selector) ==
  LET M == {m \in 1..Len(selector) :
              /\ StartsWithAt(selector, " option", m + 1)
              /\ DotRun(SubSeq(selector, 1, m))}
  IN IF M = {} THEN [matched |-> FALSE, g1 |-> ""]
     ELSE [matched |-> TRUE, g1 |-> SubSeq(selector, 1, MinOf(M))]

\* selector.match(/:has-text\("(.+?)"\)/): leftmost start, shortest text
HasTextEnds(selector, i) ==
  {e \in (i + 12)..Len(selector) :
     /\ StartsWithAt(selector, "\")", e)
     /\ DotRun(SubSeq(selector, i + 11, e - 1))}

HasTextStarts(selector) ==
  {i \in 1..Len(selector) :
     StartsWithAt(selector, ":has-text(\"", i) /\ HasTextEnds(selector, i) # {}}

textMatch(selector) ==
  IF HasTextStarts(selector) = {} THEN [matched |-> FALSE, g1 |-> ""]
  ELSE LET i == MinOf(HasTextStarts(selector))
           e == MinOf(HasTextEnds(selector, i))
       IN [matched |-> TRUE, g1 |-> SubSeq(selector, i + 11, e - 1)]

\* results of a call that may raise
Returns(v) == [throws |-> FALSE, value |-> v]
Throws == [throws |-> TRUE, value |-> ""]

(***************************************************************************)
(* Playwright converter: code generation.                                  *)
(***************************************************************************)
PlaywrightSupportedActions ==
  {"get", "click", "sendKeys", "clear", "getTagName",
   "Navigation.refresh", "Navigation.back", "Navigation.forward",
   "Wait.until"}

\* generatePageAction with the go-back call commented out
generatePageAction_BackCommented(action, selector, language, value) ==
  LET escapedSelector == escapeQuotes(selector)
      escapedValue == escapeQuotes(value)
  IN IF language = "python"
       THEN CASE action = "goto" -> "await page.goto(\"" \o escapedSelector \o "\")"
              [] action = "click" -> "await page.click(\"" \o escapedSelector \o "\")"
              [] action = "fill" ->
                   "await page.fill(\"" \o escapedSelector \o "\", \""
                     \o escapedValue \o "\")"
              [] action = "reload" -> "await page.reload()"
              [] action = "goBack" -> "# await page.go_back()"
              [] action = "goForward" -> "await page.go_forward()"
              [] OTHER -> ""
     ELSE CASE action = "goto" -> "await page.goto(\"" \o escapedSelector \o "\");"
            [] action = "click" -> "await page.click(\"" \o escapedSelector \o "\");"
            [] action = "fill" ->
                 "await page.fill(\"" \o escapedSelector \o "\", \""
                   \o escapedValue \o "\");"
            [] action = "reload" -> "await page.reload();"
            [] action = "goBack" -> "// await page.goBack();"
            [] action = "goForward" -> "await page.goForward();"
            [] OTHER -> ""

generatePageAction(action, selector, language, value) ==
  LET escapedSelector == escapeQuotes(selector)
      escapedValue == escapeQuotes(value)
  IN IF language = "python"
       THEN CASE action = "goto" -> "await page.goto(\"" \o escapedSelector \o "\")"
              [] action = "click" -> "await page.click(\"" \o escapedSelector \o "\")"
              [] action = "fill" ->
                   "await page.fill(\"" \o escapedSelector \o "\", \""
                     \o escapedValue \o "\")"
              [] action = "reload" -> "await page.reload()"
              [] action = "goBack" -> "await page.go_back()"
              [] action = "goForward" -> "await page.go_forward()"
              [] OTHER -> ""
     ELSE CASE action = "goto" -> "await page.goto(\"" \o escapedSelector \o "\");"
            [] action = "click" -> "await page.click(\"" \o escapedSelector \o "\");"
            [] action = "fill" ->
                 "await page.fill(\"" \o escapedSelector \o "\", \""
                   \o escapedValue \o "\");"
            [] action = "reload" -> "await page.reload();"
            [] action = "goBack" -> "await page.goBack();"
            [] action = "goForward" -> "await page.goForward();"
            [] OTHER -> ""

\* option is the object { label, value }; value is undefined at the only
\* call site.  (option.value || option) is then the option object itself,
\* which is truthy and has no replace method: the call raises a TypeError.
generateSelectOption(selector, option, language) ==
  LET escapedSelector == escapeQuotes(selector)
      escapedLabel == IF Truthy(option.label) THEN escapeQuotes(option.label.s) ELSE ""
      valueOrOption == IF Truthy(option.value) THEN option.value ELSE Obj
  IN IF valueOrOption.t # "string" THEN Throws
     ELSE LET escapedValue == escapeQuotes(valueOrOption.s)
          IN IF language = "python"
               THEN IF Truthy(option.label)
                      THEN Returns("await page.select_option(\"" \o escapedSelector
                                     \o "\", label=\"" \o escapedLabel \o "\")")
                    ELSE Returns("await page.select_option(\"" \o escapedSelector
                                   \o "\", \"" \o escapedValue \o "\")")
             ELSE IF Truthy(option.label)
                    THEN Returns("await page.selectOption(\"" \o escapedSelector
                                   \o "\", { label: \"" \o escapedLabel \o "\" });")
                  ELSE Returns("await page.selectOption(\"" \o escapedSelector
                                 \o "\", \"" \o escapedValue \o "\");")

\* assertion.replace('to', 'to_') is applied to 'toBeVisible' in Python
generateExpectation(assertion, selector, language) ==
  LET escapedSelector == escapeQuotes(selector)
  IN IF language = "python"
       THEN "expect(page.locator(\"" \o escapedSelector \o "\"))."
              \o ReplaceFirst(assertion, "to", "to_") \o "()"
     ELSE "await expect(page.locator(\"" \o escapedSelector \o "\"))."
            \o assertion \o "();"

PlaywrightGenerateComment(text, language) ==
  IF language = "python" THEN "# " \o text ELSE "// " \o text

\* a fragment of the test body
Step(action, comment) == [action |-> action, comment |-> comment]
\* the result of convertStep: it raises, or returns a fragment (url is the
\* url property the Cypress converter attaches to a navigation fragment)
StepResult(step, url) == [throws |-> FALSE, step |-> step, url |-> url]
StepThrows == [throws |-> TRUE, step |-> Step("", ""), url |-> ""]

PlaywrightClickStep(selector, durationMs, language) ==
  LET click == StepResult(Step(generatePageAction("click", selector, language, ""),
                               "Click element (" \o JsToString(durationMs) \o "ms)"), "")
  IN IF Includes(selector, "option")
       THEN LET pm == parentMatch(selector)
            IN IF pm.matched /\ Includes(selector, ":has-text(")
                 THEN LET tm == textMatch(selector)
                      IN IF ~ tm.matched THEN StepThrows
                         ELSE LET a == generateSelectOption(pm.g1,
                                         [label |-> Str(tm.g1), value |-> Undefined],
                                         language)
                              IN IF a.throws THEN StepThrows
                                 ELSE StepResult(Step(a.value, "Select option by text"), "")
               ELSE click
     ELSE click

PlaywrightConvertStep(event, language) ==
  LET sel == extractCleanSelector(event.target)
      selector == sel.value
      kind == event.kind
  IN IF sel.throws THEN StepThrows
     ELSE IF kind = Str("get")
       THEN StepResult(Step(generatePageAction("goto", selector, language, ""),
                            "Navigate to " \o selector), "")
     ELSE IF kind = Str("click")
       THEN PlaywrightClickStep(selector, event.durationMs, language)
     ELSE IF kind = Str("sendKeys")
       THEN StepResult(Step(generatePageAction("fill", selector, language,
                                               guessInputValue(selector)),
                            "Fill input field"), "")
     ELSE IF kind = Str("clear")
       THEN StepResult(Step(generatePageAction("fill", selector, language, ""),
                            "Clear input field"), "")
     ELSE IF kind = Str("getTagName")
       THEN StepResult(Step(generateExpectation("toBeVisible", selector, language),
                            "Verify element is visible"), "")
     ELSE IF kind = Str("Navigation.refresh")
       THEN StepResult(Step(generatePageAction("reload", "", language, ""),
                            "Refresh page"), "")
     ELSE IF kind = Str("Navigation.back")
       THEN StepResult(Step(generatePageAction("goBack", "", language, ""),
                            "Navigate back"), "")
     ELSE IF kind = Str("Navigation.forward")
       THEN StepResult(Step(generatePageAction("goForward", "", language, ""),
                            "Navigate forward"), "")
     ELSE StepResult(Step(PlaywrightGenerateComment(
                            "TODO: Implement " \o JsToString(kind) \o " action", language),
                          "Unsupported action: " \o JsToString(kind)), "")

(***************************************************************************)
(* Cypress converter: origin tracking and code generation.                 *)
(***************************************************************************)
\* the supported set with the Wait.until entry of the Playwright converter
CypressSupportedActions_WithWaitUntil ==
  {"get", "click", "sendKeys", "clear", "getTagName",
   "Navigation.refresh", "Navigation.back", "Navigation.forward",
   "Wait.until"}

CypressSupportedActions ==
  {"get", "click", "sendKeys", "clear", "getTagName",
   "Navigation.refresh", "Navigation.back", "Navigation.forward"}

\* the allow-list without its Navigation.to entry
autoHandledActions_WithoutNavigationTo ==
  {"findElement", "findElements", "ImplicitWait.set"}

\* Actions that are automatically handled by modern frameworks
autoHandledActions ==
  {"findElement", "findElements", "ImplicitWait.set", "Navigation.to"}

\* new URL(url), on the URLs of the model: lower-case scheme and host, no
\* port, no credentials.  A special scheme takes its host after any run of
\* slashes; another scheme has a host only after "//".
SchemeChars ==
  {SubSeq("abcdefghijklmnopqrstuvwxyz0123456789+-.", i, i) : i \in 1..39}
HostChars ==
  {SubSeq("abcdefghijklmnopqrstuvwxyz0123456789-.", i, i) : i \in 1..38}
SpecialSchemes == {"http", "https", "ftp", "ws", "wss"}

AllIn(s, cs) == \A i \in 1..Len(s) : CharAt(s, i) \in cs

\* the position of the colon that ends the scheme, 0 if url has no scheme
SchemeEnd(url) ==
  LET c == IndexOf(url, ":", 1)
  IN IF /\ c > 1
        /\ AllIn(SubSeq(url, 1, c - 1), SchemeChars)
        /\ CharAt(url, 1) \notin {SubSeq("0123456789+-.", i, i) : i \in 1..13}
       THEN c ELSE 0

\* the first position at or after from that holds none of the characters cs
RECURSIVE SkipChars(_, _, _)
SkipChars(s, cs, from) ==
  IF from <= Len(s) /\ CharAt(s, from) \in cs THEN SkipChars(s, cs, from + 1)
  ELSE from

\* the first position at or after from that holds one of the characters cs
RECURSIVE FindChars(_, _, _)
FindChars(s, cs, from) ==
  IF from <= Len(s) /\ CharAt(s, from) \notin cs THEN FindChars(s, cs, from + 1)
  ELSE from

\* extractOrigin(url): `${protocol}//${host}`, or null when url is empty or
\* new URL(url) raises
\* the url taken for its own origin
extractOrigin_Unparsed(url) == Str(url)

extractOrigin(url) ==
  IF url = "" THEN Null
  ELSE LET c == SchemeEnd(url)
           scheme == SubSeq(url, 1, c - 1)
       IN IF c = 0 THEN Null
          ELSE IF scheme \in SpecialSchemes
            THEN LET h == SkipChars(url, {"/", "\\"}, c + 1)
                     e == FindChars(url, {"/", "\\", "?", "#"}, h)
                     host == SubSeq(url, h, e - 1)
                 IN IF host = "" \/ ~ AllIn(host, HostChars) THEN Null
                    ELSE Str(scheme \o "://" \o host)
          ELSE IF StartsWithAt(url, "//", c + 1)
            THEN LET e == FindChars(url, {"/", "?", "#"}, c + 3)
                     host == SubSeq(url, c + 3, e - 1)
                 IN IF ~ AllIn(host, HostChars) THEN Null
                    ELSE Str(scheme \o "://" \o host)
          ELSE Str(scheme \o "://")

\* generateComment with the Python comment sign of the Playwright converter
CypressGenerateComment_Python(text, language) ==
  IF language = "python" THEN "# " \o text ELSE "// " \o text

CypressGenerateComment(text, language) == "// " \o text

CypressClickStep(selector, durationMs) ==
  LET escapedSelector == escapeQuotes(selector)
      click == StepResult(Step("cy.get(\"" \o escapedSelector \o "\").click()",
                               "Click element (" \o JsToString(durationMs) \o "ms)"), "")
  IN IF Includes(selector, "option")
       THEN LET pm == parentMatch(selector)
            IN IF pm.matched /\ Includes(selector, ":has-text(")
                 THEN LET tm == textMatch(selector)
                      IN IF ~ tm.matched THEN StepThrows
                         ELSE StepResult(Step("cy.get(\"" \o escapeQuotes(pm.g1)
                                                \o "\").select(\""
                                                \o escapeQuotes(tm.g1) \o "\")",
                                              "Select option by text"), "")
               ELSE click
     ELSE click

\* the back-navigation guard without the test that previousOrigin is set
NavigationBackStep_NoNullCheck(currentOrigin, navigationHistory) ==
  LET n == Len(navigationHistory)
  IN IF /\ n > 1
        /\ navigationHistory[n - 1] # currentOrigin
       THEN Step("// cy.go('back') - Skipped due to cross-origin navigation",
                 "Navigate back (skipped - cross-origin)")
     ELSE Step("cy.go('back')", "Navigate back")

\* case 'Navigation.back' of convertStep
NavigationBackStep(currentOrigin, navigationHistory) ==
  LET n == Len(navigationHistory)
  IN IF /\ n > 1
        /\ Truthy(navigationHistory[n - 1])
        /\ navigationHistory[n - 1] # currentOrigin
       THEN Step("// cy.go('back') - Skipped due to cross-origin navigation",
                 "Navigate back (skipped - cross-origin)")
     ELSE Step("cy.go('back')", "Navigate back")

CypressConvertStep(event, language, currentOrigin, navigationHistory) ==
  LET sel == extractCleanSelector(event.target)
      selector == sel.value
      escapedSelector == escapeQuotes(selector)
      kind == event.kind
  IN IF sel.throws THEN StepThrows
     ELSE IF kind = Str("get")
       THEN StepResult(Step("cy.visit(\"" \o escapedSelector \o "\")",
                            "Navigate to " \o selector), escapedSelector)
     ELSE IF kind = Str("click")
       THEN CypressClickStep(selector, event.durationMs)
     ELSE IF kind = Str("sendKeys")
       THEN StepResult(Step("cy.get(\"" \o escapedSelector \o "\").type(\""
                              \o escapeQuotes(guessInputValue(selector)) \o "\")",
                            "Type into input field"), "")
     ELSE IF kind = Str("clear")
       THEN StepResult(Step("cy.get(\"" \o escapedSelector \o "\").clear()",
                            "Clear input field"), "")
     ELSE IF kind = Str("getTagName")
       THEN StepResult(Step("cy.get(\"" \o escapedSelector \o "\").should('be.visible')",
                            "Verify element is visible"), "")
     ELSE IF kind = Str("Navigation.refresh")
       THEN StepResult(Step("cy.reload()", "Refresh page"), "")
     ELSE IF kind = Str("Navigation.back")
       THEN StepResult(NavigationBackStep(currentOrigin, navigationHistory), "")
     ELSE IF kind = Str("Navigation.forward")
       THEN StepResult(Step("// cy.go('forward') - Skipped due to potential cross-origin navigation",
                            "Navigate forward (skipped - cross-origin)"), "")
     ELSE StepResult(Step(CypressGenerateComment(
                            "TODO: Implement " \o JsToString(kind) \o " action", language),
                          "Unsupported action: " \o JsToString(kind)), "")

(***************************************************************************)
(* Test-file templates.  A document is the sequence of its chunks          *)
(* <<head, testBody, tail>>; its text is their concatenation.              *)
(***************************************************************************)
\* generateJavaScriptTest, the template before ${testBody}
PlaywrightJavaScriptHead ==
  "const { test, expect } = require('@playwright/test');\n"
  \o "\n"
  \o "test('Migrated Selenium Test', async ({ page }) => {\n"
  \o "    // This test was automatically migrated from Selenium trace\n"
  \o "    \n"

\* generateJavaScriptTest, the template after ${testBody}
PlaywrightJavaScriptTail ==
  "\n"
  \o "    \n"
  \o "    // Add final verification\n"
  \o "    await expect(page).toHaveURL(/.+/);\n"
  \o "});\n"
  \o "\n"
  \o "test.describe('Additional Test Scenarios', () => {\n"
  \o "    test('Form Interaction Test', async ({ page }) => {\n"
  \o "        // Simplified form interaction test\n"
  \o "        await page.goto('https://www.selenium.dev/selenium/web/web-form.html');\n"
  \o "        \n"
  \o "        await page.fill('[name=\"my-text\"]', 'Sample text input');\n"
  \o "        await page.fill('[name=\"my-password\"]', 'testPassword123');\n"
  \o "        await page.selectOption('[name=\"my-select\"]', { label: 'Two' });\n"
  \o "        await page.check('input[type=\"checkbox\"]');\n"
  \o "        \n"
  \o "        await expect(page.locator('[name=\"my-text\"]')).toHaveValue('Sample text input');\n"
  \o "        await expect(page.locator('input[type=\"checkbox\"]')).toBeChecked();\n"
  \o "    });\n"
  \o "});"

\* generateTypeScriptTest, the template before ${testBody}
PlaywrightTypeScriptHead ==
  "import { test, expect } from '@playwright/test';\n"
  \o "\n"
  \o "test('Migrated Selenium Test', async ({ page }) => {\n"
  \o "    // This test was automatically migrated from Selenium trace\n"
  \o "    \n"

\* generateTypeScriptTest, the template after ${testBody}
PlaywrightTypeScriptTail ==
  "\n"
  \o "    \n"
  \o "    // Add final verification\n"
  \o "    await expect(page).toHaveURL(/.+/);\n"
  \o "});\n"
  \o "\n"
  \o "test.describe('Additional Test Scenarios', () => {\n"
  \o "    test('Form Interaction Test', async ({ page }) => {\n"
  \o "        // Simplified form interaction test\n"
  \o "        await page.goto('https://www.selenium.dev/selenium/web/web-form.html');\n"
  \o "        \n"
  \o "        await page.fill('[name=\"my-text\"]', 'Sample text input');\n"
  \o "        await page.fill('[name=\"my-password\"]', 'testPassword123');\n"
  \o "        await page.selectOption('[name=\"my-select\"]', { label: 'Two' });\n"
  \o "        await page.check('input[type=\"checkbox\"]');\n"
  \o "        \n"
  \o "        await expect(page.locator('[name=\"my-text\"]')).toHaveValue('Sample text input');\n"
  \o "        await expect(page.locator('input[type=\"checkbox\"]')).toBeChecked();\n"
  \o "    });\n"
  \o "});"

\* generatePythonTest, the template before ${testBody}
PlaywrightPythonHead ==
  "import pytest\n"
  \o "from playwright.async_api import async_playwright, expect\n"
  \o "\n"
  \o "@pytest.mark.asyncio\n"
  \o "async def test_migrated_selenium_test():\n"
  \o "    \"\"\"This test was automatically migrated from Selenium trace\"\"\"\n"
  \o "    async with async_playwright() as p:\n"
  \o "        browser = await p.chromium.launch()\n"
  \o "        page = await browser.new_page()\n"
  \o "        \n"

\* generatePythonTest, the template after ${testBody}
PlaywrightPythonTail ==
  "\n"
  \o "        \n"
  \o "        # Add final verification\n"
  \o "        await expect(page).to_have_url(re.compile(r\".+\"))\n"
  \o "        \n"
  \o "        await browser.close()\n"
  \o "\n"
  \o "@pytest.mark.asyncio\n"
  \o "async def test_form_interaction():\n"
  \o "    \"\"\"Simplified form interaction test\"\"\"\n"
  \o "    async with async_playwright() as p:\n"
  \o "        browser = await p.chromium.launch()\n"
  \o "        page = await browser.new_page()\n"
  \o "        \n"
  \o "        await page.goto(\"https://www.selenium.dev/selenium/web/web-form.html\")\n"
  \o "        \n"
  \o "        await page.fill('[name=\"my-text\"]', \"Sample text input\")\n"
  \o "        await page.fill('[name=\"my-password\"]', \"testPassword123\")\n"
  \o "        await page.select_option('[name=\"my-select\"]', label=\"Two\")\n"
  \o "        await page.check('input[type=\"checkbox\"]')\n"
  \o "        \n"
  \o "        await expect(page.locator('[name=\"my-text\"]')).to_have_value(\"Sample text input\")\n"
  \o "        await expect(page.locator('input[type=\"checkbox\"]')).to_be_checked()\n"
  \o "        \n"
  \o "        await browser.close()"

\* generateJavaScriptTest, the template before ${testBody}
CypressJavaScriptHead ==
  "describe('Migrated Selenium Test', () => {\n"
  \o "  it('should execute migrated test steps', () => {\n"
  \o "    // This test was automatically migrated from Selenium trace\n"
  \o "    \n"

\* generateJavaScriptTest, the template after ${testBody}
CypressJavaScriptTail ==
  "\n"
  \o "  });\n"
  \o "\n"
  \o "  it('should handle form interactions', () => {\n"
  \o "    // Simplified form interaction test\n"
  \o "    cy.visit('https://www.selenium.dev/selenium/web/web-form.html');\n"
  \o "    \n"
  \o "    cy.get('[name=\"my-text\"]').type('Sample text input');\n"
  \o "    cy.get('[name=\"my-password\"]').type('testPassword123');\n"
  \o "    cy.get('[name=\"my-select\"]').select('Two');\n"
  \o "    cy.get('input[type=\"checkbox\"]').check();\n"
  \o "    \n"
  \o "    // Verify form state\n"
  \o "    cy.get('[name=\"my-text\"]').should('have.value', 'Sample text input');\n"
  \o "    cy.get('[name=\"my-select\"]').should('have.value', '2');\n"
  \o "    cy.get('input[type=\"checkbox\"]').should('be.checked');\n"
  \o "  });\n"
  \o "\n"
  \o "  it('should handle single-origin navigation', () => {\n"
  \o "    // Test navigation within the same origin to avoid cross-origin issues\n"
  \o "    cy.visit('https://www.selenium.dev/selenium/web/web-form.html');\n"
  \o "    cy.get('[name=\"my-text\"]').should('be.visible');\n"
  \o "    \n"
  \o "    // Verify we're on the correct page\n"
  \o "    cy.url().should('include', 'selenium.dev');\n"
  \o "    cy.title().should('contain', 'Web form');\n"
  \o "  });\n"
  \o "});"

\* generateTypeScriptTest, the template before ${testBody}
CypressTypeScriptHead ==
  "/// <reference types=\"cypress\" />\n"
  \o "\n"
  \o "describe('Migrated Selenium Test', () => {\n"
  \o "  it('should execute migrated test steps', () => {\n"
  \o "    // This test was automatically migrated from Selenium trace\n"
  \o "    \n"

\* generateTypeScriptTest, the template after ${testBody}
CypressTypeScriptTail ==
  "\n"
  \o "  });\n"
  \o "\n"
  \o "  it('should handle form interactions', () => {\n"
  \o "    // Simplified form interaction test\n"
  \o "    cy.visit('https://www.selenium.dev/selenium/web/web-form.html');\n"
  \o "    \n"
  \o "    cy.get('[name=\"my-text\"]').type('Sample text input');\n"
  \o "    cy.get('[name=\"my-password\"]').type('testPassword123');\n"
  \o "    cy.get('[name=\"my-select\"]').select('Two');\n"
  \o "    cy.get('input[type=\"checkbox\"]').check();\n"
  \o "    \n"
  \o "    // Verify form state\n"
  \o "    cy.get('[name=\"my-text\"]').should('have.value', 'Sample text input');\n"
  \o "    cy.get('[name=\"my-select\"]').should('have.value', '2');\n"
  \o "    cy.get('input[type=\"checkbox\"]').should('be.checked');\n"
  \o "  });\n"
  \o "\n"
  \o "  it('should handle single-origin navigation', () => {\n"
  \o "    // Test navigation within the same origin to avoid cross-origin issues\n"
  \o "    cy.visit('https://www.selenium.dev/selenium/web/web-form.html');\n"
  \o "    cy.get('[name=\"my-text\"]').should('be.visible');\n"
  \o "    \n"
  \o "    // Verify we're on the correct page\n"
  \o "    cy.url().should('include', 'selenium.dev');\n"
  \o "    cy.title().should('contain', 'Web form');\n"
  \o "  });\n"
  \o "});"

\* steps.map(step => prefix + step.comment + "\n    " + step.action + suffix)
\*      .join("\n\n")
RECURSIVE joinSteps(_, _, _)
joinSteps(steps, prefix, suffix) ==
  IF steps = <<>> THEN ""
  ELSE LET piece == prefix \o Head(steps).comment \o "\n    "
                      \o Head(steps).action \o suffix
       IN IF Len(steps) = 1 THEN piece
          ELSE piece \o "\n\n" \o joinSteps(Tail(steps), prefix, suffix)

PlaywrightGenerateTestFile(steps, language) ==
  IF language = "python"
    THEN <<PlaywrightPythonHead, joinSteps(steps, "    # ", ""), PlaywrightPythonTail>>
  ELSE IF language = "typescript"
    THEN <<PlaywrightTypeScriptHead, joinSteps(steps, "    // ", ""),
           PlaywrightTypeScriptTail>>
  ELSE <<PlaywrightJavaScriptHead, joinSteps(steps, "    // ", ""),
         PlaywrightJavaScriptTail>>

PlaywrightGetFilename(language) ==
  IF language = "python" THEN "test_migrated_selenium.py"
  ELSE IF language = "typescript" THEN "migrated-selenium.spec.ts"
  ELSE "migrated-selenium.spec.js"

\* generateTestFile closing the TypeScript document with the text of the
\* Playwright TypeScript document
CypressGenerateTestFile_PlaywrightTail(steps, language) ==
  IF language = "typescript"
    THEN <<CypressTypeScriptHead, joinSteps(steps, "    // ", ";"),
           PlaywrightTypeScriptTail>>
  ELSE <<CypressJavaScriptHead, joinSteps(steps, "    // ", ";"),
         CypressJavaScriptTail>>

CypressGenerateTestFile(steps, language) ==
  IF language = "typescript"
    THEN <<CypressTypeScriptHead, joinSteps(steps, "    // ", ";"),
           CypressTypeScriptTail>>
  ELSE <<CypressJavaScriptHead, joinSteps(steps, "    // ", ";"),
         CypressJavaScriptTail>>

CypressGetFilename(language) ==
  IF language = "typescript" THEN "migrated-selenium.cy.ts"
  ELSE "migrated-selenium.cy.js"

(***************************************************************************)
(* Trace lines.  A line of the trace file is blank, is not JSON            *)
(* ("garbage"), or is the JSON text of null, of a number or of an object   *)
(* with the properties evt, kind, target and durationMs (Undefined when    *)
(* the property is absent).                                                *)
(***************************************************************************)
Line(text, evt, kind, target, durationMs) ==
  [text |-> text, evt |-> evt, kind |-> kind, target |-> target,
   durationMs |-> durationMs]

RawLine(text) == Line(text, Undefined, Undefined, Undefined, Undefined)

\* a step.ok event of the recorder
Ev(kind, target) == Line("object", Str("step.ok"), Str(kind), target, Num(12))

Languages == {"javascript", "typescript", "python", "ruby"}

IgnoredLines ==
  {RawLine("blank"), RawLine("garbage"), RawLine("null"),
   Line("object", Undefined, Str("click"), Str("[[drv] -> id: submit]"), Num(12)),
   Line("object", Str("step.fail"), Str("get"), Str("https://a.test/x"), Num(12))}

\* the lines a conversion run of Spec draws its trace from
Lines ==
  IgnoredLines \cup
  {Ev("get", Str("https://selenium.dev/page")),
   Ev("click", Str("[[drv] -> id: submit]")),
   Ev("click", Str("[[drv] -> css selector: select option:has-text(\"Two\")]")),
   Ev("click", Str("[[drv] -> css selector: select option:has-text(x)]")),
   Ev("click", Num(5)),
   Ev("sendKeys", Str("[[drv] -> name: email]")),
   Ev("clear", Str("[[drv] -> name: q]")),
   Ev("getTagName", Str("[[drv] -> tag name: h1]")),
   Ev("Navigation.refresh", Undefined),
   Ev("Navigation.back", Undefined),
   Ev("Navigation.forward", Undefined),
   Ev("Wait.until", Undefined),
   Ev("findElement", Str("[[drv] -> id: submit]")),
   Ev("findElements", Str("[[drv] -> class: row]")),
   Ev("ImplicitWait.set", Undefined),
   Ev("Navigation.to", Str("https://a.test/x")),
   Ev("submit", Str("[[drv] -> id: form]")),
   Line("object", Str("step.ok"), Undefined, Undefined, Undefined)}

\* the lines a conversion run of NavSpec draws its trace from
NavLines ==
  {Ev("get", Str("https://a.test/x")),
   Ev("get", Str("https://b.test/y")),
   Ev("get", Str("https://a.test/z")),
   Ev("get", Str("page.html")),
   Ev("get", Undefined),
   Ev("Navigation.back", Undefined),
   Ev("Navigation.back", Num(5)),
   Ev("Navigation.forward", Undefined)}

\* JSON.parse(line): [throws, value]
JSONparse(line) ==
  IF line.text = "garbage" THEN [throws |-> TRUE, value |-> Undefined, event |-> line]
  ELSE IF line.text = "null" THEN [throws |-> FALSE, value |-> Null, event |-> line]
  ELSE [throws |-> FALSE, value |-> Obj, event |-> line]

\* the event test without the comparison of evt: any decoded object passes
IsStepOk_AnyEvent(line) ==
  LET parsed == JSONparse(line)
  IN /\ ~ parsed.throws
     /\ parsed.value.t = "object"

\* event.evt === 'step.ok', after JSON.parse: reading evt of null raises,
\* evt of a number is undefined
IsStepOk(line) ==
  LET parsed == JSONparse(line)
  IN /\ ~ parsed.throws
     /\ parsed.value.t = "object"
     /\ parsed.event.evt = Str("step.ok")

(***************************************************************************)
(* One conversion run: convert(traceFilePath, language).                   *)
(***************************************************************************)
VARIABLES
  framework,          \* the converter the run belongs to
  language,           \* the language argument
  pc,                 \* "read", "forEach", "returned" or "rejected"
  lines,              \* the lines of the trace file visited so far
  steps,              \* the fragment list
  stats,              \* totalActions, convertedActions, skippedActions, actionBreakdown
  currentOrigin,      \* Cypress: origin of the last navigation
  navigationHistory,  \* Cypress: origins of the navigations
  result,             \* the value convert resolves with
  selPc,              \* locator parser call: "idle", "call" or "done"
  selInput,           \* locator parser call: the target and its parts
  selOutput,          \* locator parser call: what extractCleanSelector returned
  other,              \* a second convert call awaiting its read, or finished
  calls,              \* the convert calls that have returned, in order
  app,                \* browser client: the fields of FrameworkMigrationApp
  dom,                \* browser client: the page elements the handlers write
  sent,               \* browser client: the bodies of the convert requests sent
  job,                \* server: the entry of conversionJobs for the job
  requests,           \* server: the requests for the job and where each stands
  poll                \* browser client: the polling loop of pollExecutionResults

convVars == <<framework, language, pc, lines, steps, stats, currentOrigin,
              navigationHistory, result>>
selVars == <<selPc, selInput, selOutput>>
callVars == <<other, calls>>
clientVars == <<app, dom, sent>>
serverVars == <<job, requests, poll>>
appVars == <<clientVars, serverVars>>
vars == <<convVars, selVars, callVars, appVars>>

\* the variables outside a conversion run, and outside a locator parser call
nonConvVars == <<selVars, callVars, appVars>>
nonSelVars == <<convVars, callVars, appVars>>

\* no second call, and no call that has returned
NoCall == [state |-> "none", language |-> ""]
SingleCall == other = NoCall /\ calls = <<>>

NoResult == [content |-> <<>>, filename |-> "", stats |-> <<>>]

\* the page before its script runs, and a server without a job
NoJob == [status |-> "none"]
NoPoll == [state |-> "idle", attempts |-> 0, report |-> ""]
ClientIdle ==
  /\ app = [loadFrameworks |-> "idle", frameworks |-> <<>>, currentStep |-> 1,
            jobId |-> Null, selectedFramework |-> Null, selectedLanguage |-> Null]
  /\ dom = [frameworkOptions |-> {}, languageOptions |-> {},
            languageSelectionHidden |-> TRUE, startConversionDisabled |-> TRUE]
  /\ sent = <<>>
ServerIdle == job = NoJob /\ requests = <<>> /\ poll = NoPoll
AppIdle == ClientIdle /\ ServerIdle

\* no locator parser call is under way
SelIdle ==
  /\ selPc = "idle"
  /\ selInput = [drv |-> "", kind |-> "", x |-> "", target |-> "", given |-> TRUE]
  /\ selOutput = Returns("")

Init ==
  /\ SelIdle
  /\ SingleCall
  /\ AppIdle
  /\ framework \in {"playwright", "cypress"}
  /\ language \in Languages
  /\ pc = "read"
  /\ lines = <<>>
  /\ steps = <<>>
  /\ stats = [totalActions |-> 0, convertedActions |-> 0, skippedActions |-> 0,
              actionBreakdown |-> <<>>]
  /\ currentOrigin = Null
  /\ navigationHistory = <<>>
  /\ result = NoResult

\* the fragment put at the front of the list (unshift) instead of the end
Push_Front(list, step) == <<step>> \o list

\* steps.push(step)
Push(list, step) == Append(list, step)

\* the text of a built-in function
NativeFunctionText(name) == "function " \o name \o "() { [native code] }"

\* what `${v}` gives for the property key that an object literal inherits
\* from Object.prototype, "" for a key it does not inherit
InheritedText(key) ==
  CASE key = "constructor" -> NativeFunctionText("Object")
    [] key \in {"toString", "valueOf", "hasOwnProperty"} -> NativeFunctionText(key)
    [] key = "__proto__" -> "[object Object]"
    [] OTHER -> ""

\* actionBreakdown[action] = (actionBreakdown[action] || 0) + 1.  The
\* breakdown is an object literal: a key it does not hold is looked up in
\* Object.prototype, whose functions and objects are truthy, and + 1 on one
\* of them, or on a string, concatenates.  An assignment of a string to
\* __proto__ is ignored.  The entries are JavaScript values.
CountAction(actionBreakdown, key) ==
  LET previous == IF key \in DOMAIN actionBreakdown THEN actionBreakdown[key]
                  ELSE IF InheritedText(key) # "" THEN Str(InheritedText(key))
                  ELSE Undefined
      next == IF ~ Truthy(previous) THEN Num(1)
              ELSE IF previous.t = "number" THEN Num(previous.n + 1)
              ELSE Str(JsToString(previous) \o "1")
  IN IF key = "__proto__" THEN actionBreakdown
     ELSE [k \in DOMAIN actionBreakdown \cup {key} |->
             IF k = key THEN next ELSE actionBreakdown[k]]

\* the fragment pushed for an event outside the supported set
PlaywrightUnsupportedStep(event, lang) ==
  Step(PlaywrightGenerateComment("Unsupported action: " \o JsToString(event.kind),
                                 lang),
       "Original target: "
         \o (IF Truthy(event.target) THEN JsToString(event.target) ELSE "N/A"))

CypressUnsupportedStep(event, lang) ==
  Step(CypressGenerateComment("Unsupported action: " \o JsToString(event.kind),
                              lang),
       "Original target: "
         \o (IF Truthy(event.target) THEN JsToString(event.target) ELSE "N/A"))

\* await fs.readFile(traceFilePath, 'utf8') resolves
ReadFile ==
  /\ pc = "read"
  /\ pc' = "forEach"
  /\ UNCHANGED <<framework, language, lines, steps, stats, currentOrigin,
                 navigationHistory, result>>
  /\ UNCHANGED nonConvVars

\* the rejection of the read taken for an empty trace
ReadFileFails_EmptyDocument ==
  /\ pc = "read"
  /\ pc' = "returned"
  /\ result' = [content |-> IF framework = "cypress"
                              THEN CypressGenerateTestFile(<<>>, language)
                            ELSE PlaywrightGenerateTestFile(<<>>, language),
                filename |-> "",
                stats |-> stats]
  /\ UNCHANGED <<framework, language, lines, steps, stats, currentOrigin,
                 navigationHistory>>
  /\ UNCHANGED nonConvVars

\* await fs.readFile(traceFilePath, 'utf8') rejects: so does convert
ReadFileFails ==
  /\ pc = "read"
  /\ pc' = "rejected"
  /\ UNCHANGED <<framework, language, lines, steps, stats, currentOrigin,
                 navigationHistory, result>>
  /\ UNCHANGED nonConvVars

\* the callback with totalActions counted as the Cypress converter counts
\* it, the auto-handled kinds left out
PlaywrightProcessLine_AllowList(line) ==
  /\ framework = "playwright"
  /\ pc = "forEach"
  /\ lines' = Append(lines, line)
  /\ IF line.text = "blank" \/ ~ IsStepOk(line)
       THEN UNCHANGED <<steps, stats>>
     ELSE LET action == line.kind
              broken == [stats EXCEPT
                           !.actionBreakdown = CountAction(@, JsToString(action))]
              counted == IF ~ SetHas(autoHandledActions, action)
                           THEN [broken EXCEPT !.totalActions = @ + 1]
                         ELSE broken
          IN IF SetHas(PlaywrightSupportedActions, action)
               THEN LET r == PlaywrightConvertStep(line, language)
                    IN IF r.throws
                         THEN /\ stats' = counted
                              /\ UNCHANGED steps
                       ELSE /\ steps' = Push(steps, r.step)
                            /\ stats' = [counted EXCEPT !.convertedActions = @ + 1]
             ELSE /\ stats' = [counted EXCEPT !.skippedActions = @ + 1]
                  /\ steps' = Push(steps, PlaywrightUnsupportedStep(line, language))
  /\ UNCHANGED <<framework, language, pc, currentOrigin, navigationHistory, result>>
  /\ UNCHANGED nonConvVars

\* PlaywrightConverter.convert: the callback of lines.forEach on one line
\* (a blank line is dropped by the filter before the loop)
PlaywrightProcessLine(line) ==
  /\ framework = "playwright"
  /\ pc = "forEach"
  /\ lines' = Append(lines, line)
  /\ IF line.text = "blank" \/ ~ IsStepOk(line)
       THEN UNCHANGED <<steps, stats>>
     ELSE LET action == line.kind
              counted == [stats EXCEPT
                            !.totalActions = @ + 1,
                            !.actionBreakdown = CountAction(@, JsToString(action))]
          IN IF SetHas(PlaywrightSupportedActions, action)
               THEN LET r == PlaywrightConvertStep(line, language)
                    IN IF r.throws
                         THEN /\ stats' = counted
                              /\ UNCHANGED steps
                       ELSE /\ steps' = Push(steps, r.step)
                            /\ stats' = [counted EXCEPT !.convertedActions = @ + 1]
             ELSE /\ stats' = [counted EXCEPT !.skippedActions = @ + 1]
                  /\ steps' = Push(steps, PlaywrightUnsupportedStep(line, language))
  /\ UNCHANGED <<framework, language, pc, currentOrigin, navigationHistory, result>>
  /\ UNCHANGED nonConvVars

\* CypressConverter.convert: the callback of lines.forEach on one line
CypressProcessLine(line) ==
  /\ framework = "cypress"
  /\ pc = "forEach"
  /\ lines' = Append(lines, line)
  /\ IF line.text = "blank" \/ ~ IsStepOk(line)
       THEN UNCHANGED <<steps, stats, currentOrigin, navigationHistory>>
     ELSE LET action == line.kind
              broken == [stats EXCEPT
                           !.actionBreakdown = CountAction(@, JsToString(action))]
              counted == IF ~ SetHas(autoHandledActions, action)
                           THEN [broken EXCEPT !.totalActions = @ + 1]
                         ELSE broken
          IN IF SetHas(CypressSupportedActions, action)
               THEN LET r == CypressConvertStep(line, language, currentOrigin,
                                                navigationHistory)
                    IN IF r.throws
                         THEN /\ stats' = counted
                              /\ UNCHANGED <<steps, currentOrigin, navigationHistory>>
                       ELSE /\ steps' = Push(steps, r.step)
                            /\ stats' = [counted EXCEPT !.convertedActions = @ + 1]
                            /\ IF action = Str("get") /\ r.url # ""
                                 THEN /\ navigationHistory' =
                                           Append(navigationHistory, extractOrigin(r.url))
                                      /\ currentOrigin' = extractOrigin(r.url)
                               ELSE UNCHANGED <<currentOrigin, navigationHistory>>
             ELSE IF ~ SetHas(autoHandledActions, action)
               THEN /\ stats' = [counted EXCEPT !.skippedActions = @ + 1]
                    /\ steps' = Push(steps, CypressUnsupportedStep(line, language))
                    /\ UNCHANGED <<currentOrigin, navigationHistory>>
             ELSE /\ stats' = counted
                  /\ UNCHANGED <<steps, currentOrigin, navigationHistory>>
  /\ UNCHANGED <<framework, language, pc, result>>
  /\ UNCHANGED nonConvVars

\* generateTestFile, getFilename and the return of PlaywrightConverter.convert
PlaywrightReturn ==
  /\ framework = "playwright"
  /\ pc = "forEach"
  /\ pc' = "returned"
  /\ result' = [content |-> PlaywrightGenerateTestFile(steps, language),
                filename |-> PlaywrightGetFilename(language),
                stats |-> stats]
  /\ UNCHANGED <<framework, language, lines, steps, stats, currentOrigin,
                 navigationHistory>>
  /\ UNCHANGED nonConvVars

\* generateTestFile, getFilename and the return of CypressConverter.convert
CypressReturn ==
  /\ framework = "cypress"
  /\ pc = "forEach"
  /\ pc' = "returned"
  /\ result' = [content |-> CypressGenerateTestFile(steps, language),
                filename |-> CypressGetFilename(language),
                stats |-> stats]
  /\ UNCHANGED <<framework, language, lines, steps, stats, currentOrigin,
                 navigationHistory>>
  /\ UNCHANGED nonConvVars

\* a run over a trace of at most MaxLines lines drawn from Lines
Next ==
  \/ ReadFile
  \/ ReadFileFails
  \/ \E line \in Lines : Len(lines) < MaxLines /\ PlaywrightProcessLine(line)
  \/ \E line \in Lines : Len(lines) < MaxLines /\ CypressProcessLine(line)
  \/ PlaywrightReturn
  \/ CypressReturn

Spec == Init /\ [][Next]_vars

\* a run over a navigation trace of at most MaxNavLines lines
NavNext ==
  \/ ReadFile
  \/ ReadFileFails
  \/ \E line \in NavLines : Len(lines) < MaxNavLines /\ PlaywrightProcessLine(line)
  \/ \E line \in NavLines : Len(lines) < MaxNavLines /\ CypressProcessLine(line)
  \/ PlaywrightReturn
  \/ CypressReturn

NavSpec == Init /\ [][NavNext]_vars

(***************************************************************************)
(* Traces of page visits and back-navigations (BackSpec).                  *)
(***************************************************************************)
\* longest trace of visits and back-navigations a conversion run reads
MaxBackLines == 5

\* the lines a conversion run of BackSpec draws its trace from
BackLines ==
  {Ev("get", Str("https://a.test/x")),
   Ev("get", Str("https://a.test/z")),
   Ev("get", Str("https://b.test/y")),
   Ev("Navigation.back", Undefined)}

BackNext ==
  \/ ReadFile
  \/ ReadFileFails
  \/ \E line \in BackLines : Len(lines) < MaxBackLines /\ PlaywrightProcessLine(line)
  \/ \E line \in BackLines : Len(lines) < MaxBackLines /\ CypressProcessLine(line)
  \/ PlaywrightReturn
  \/ CypressReturn

BackSpec == Init /\ [][BackNext]_vars

(***************************************************************************)
(* The locator parser on its own: extractCleanSelector applied to one      *)
(* target.  The two converters carry the same text of the function.        *)
(***************************************************************************)
\* the strings of at most n characters over the characters cs
RECURSIVE StringsUpTo(_, _)
StringsUpTo(cs, n) ==
  IF n = 0 THEN {""}
  ELSE LET shorter == StringsUpTo(cs, n - 1)
       IN shorter \cup {c \o w : c \in cs, w \in shorter}

LocatorKinds ==
  {"name", "css selector", "xpath", "tag name", "id", "class", "link text"}

\* a target in the driver's bracketed dialect, [[drv] -> kind: x]
Bracketed(drv, kind, x) ==
  [drv |-> drv, kind |-> kind, x |-> x,
   target |-> "[[" \o drv \o "] -> " \o kind \o ": " \o x \o "]", given |-> TRUE]

\* a target outside the dialect
Raw(target) ==
  [drv |-> "", kind |-> "", x |-> "", target |-> target, given |-> TRUE]

\* an event that carries no target
Absent == [drv |-> "", kind |-> "", x |-> "", target |-> "", given |-> FALSE]

\* the value the event's target property yields
TargetOf(input) == IF input.given THEN Str(input.target) ELSE Undefined

SelInputs ==
  {Bracketed(drv, kind, x) :
     drv \in {"drv", "ChromeDriver: chrome on linux (1a2b)"},
     kind \in LocatorKinds,
     x \in StringsUpTo({"x", "[", "]"}, MaxValueLen)}
  \cup {Bracketed("drv", "id", "foo"), Bracketed("drv", "name", "bar"),
        Bracketed("drv", "css selector", ".x > y"),
        Bracketed("drv", "css selector", "input[type=\"checkbox\"]")}
  \cup {Raw("plain-target"), Raw(""), Raw("https://a.test/x"),
        Raw("[https://a.test/x]"), Raw("https://a.test/q[0]"), Absent}

\* the state at which no conversion run is under way
ConvIdle ==
  /\ framework = "playwright"
  /\ language = "javascript"
  /\ pc = "idle"
  /\ lines = <<>>
  /\ steps = <<>>
  /\ stats = [totalActions |-> 0, convertedActions |-> 0, skippedActions |-> 0,
              actionBreakdown |-> <<>>]
  /\ currentOrigin = Null
  /\ navigationHistory = <<>>
  /\ result = NoResult

SelInit ==
  /\ ConvIdle
  /\ SingleCall
  /\ AppIdle
  /\ selPc = "call"
  /\ selInput \in SelInputs
  /\ selOutput = Returns("")

\* the call extractCleanSelector(target)
ExtractCleanSelectorCall ==
  /\ selPc = "call"
  /\ selOutput' = extractCleanSelector(TargetOf(selInput))
  /\ selPc' = "done"
  /\ UNCHANGED selInput
  /\ UNCHANGED nonSelVars

SelNext == ExtractCleanSelectorCall

SelectorSpec == SelInit /\ [][SelNext]_vars

(***************************************************************************)
(* A run over a trace of one event whose locator text is drawn from short  *)
(* strings over a quote, a backslash and a letter, and from concatenations *)
(* of the words the input-value heuristic looks for.                       *)
(***************************************************************************)
MaxWords == 2

\* the kinds whose fragment embeds the rendered selector
EmbeddingKinds == {"get", "click", "sendKeys", "clear", "getTagName"}

\* the substrings guessInputValue looks for, and one it does not
Words == {"password", "email", "text", "textarea", "name", "q"}

EventLines ==
  {Ev(kind, Str(t)) :
     kind \in EmbeddingKinds, t \in StringsUpTo({"a", "\"", "\\"}, MaxValueLen)}
  \cup {Ev("sendKeys", Str(Bracketed("drv", kind, w).target)) :
          kind \in {"name", "css selector"}, w \in StringsUpTo(Words, MaxWords)}

EventNext ==
  \/ ReadFile
  \/ ReadFileFails
  \/ (pc = "forEach" /\ lines = <<>>)
       /\ \E line \in EventLines : PlaywrightProcessLine(line)
  \/ (pc = "forEach" /\ lines = <<>>)
       /\ \E line \in EventLines : CypressProcessLine(line)
  \/ PlaywrightReturn
  \/ CypressReturn

EventSpec == Init /\ [][EventNext]_vars

(***************************************************************************)
(* Several convert calls, one after the other or overlapping.  convert     *)
(* suspends once, at the read of the trace; what follows the read runs to  *)
(* the return without interruption.  A call that arrives while another     *)
(* awaits its read awaits its own; the reads resolve in either order.  The *)
(* locals of a call are created when its body runs.                        *)
(***************************************************************************)
MaxCalls == 3

CallLanguages == {"javascript", "python", "ruby"}

\* the traces the calls convert
CallTraces ==
  {<<>>,
   <<Ev("get", Str("https://a.test/x")), Ev("Navigation.back", Undefined),
     Ev("get", Str("https://b.test/y"))>>,
   <<Ev("click", Str("[[drv] -> id: submit]")),
     Ev("submit", Str("[[drv] -> id: form]"))>>}

\* the locals kept from the call before: stats is not created anew
FreshLocals_KeepStats ==
  /\ steps' = <<>>
  /\ currentOrigin' = Null
  /\ navigationHistory' = <<>>
  /\ UNCHANGED stats

\* const steps = [], const stats = {...}, let currentOrigin = null,
\* const navigationHistory = []
FreshLocals ==
  /\ steps' = <<>>
  /\ stats' = [totalActions |-> 0, convertedActions |-> 0, skippedActions |-> 0,
               actionBreakdown |-> <<>>]
  /\ currentOrigin' = Null
  /\ navigationHistory' = <<>>

\* what a call that has returned leaves: its arguments, its locals at the
\* return, the value it resolved with, and whether another call was
\* pending or had run while it awaited its read
CallRecord ==
  [framework |-> framework, language |-> language, lines |-> lines,
   steps |-> steps, stats |-> stats, currentOrigin |-> currentOrigin,
   navigationHistory |-> navigationHistory, result |-> result,
   overlapped |-> other # NoCall]

\* convert is called after the calls before it have returned
NextCall ==
  /\ pc = "returned"
  /\ other.state # "suspended"
  /\ Len(calls) + 1 < MaxCalls
  /\ calls' = Append(calls, CallRecord)
  /\ other' = NoCall
  /\ language' \in CallLanguages
  /\ pc' = "read"
  /\ lines' = <<>>
  /\ result' = NoResult
  /\ FreshLocals
  /\ UNCHANGED framework
  /\ UNCHANGED <<selVars, appVars>>

\* convert is called while a call awaits its read
OverlappingCall ==
  /\ pc = "read"
  /\ other = NoCall
  /\ Len(calls) + 2 <= MaxCalls
  /\ \E lang \in CallLanguages : other' = [state |-> "suspended", language |-> lang]
  /\ UNCHANGED <<convVars, selVars, appVars, calls>>

\* of two calls awaiting their reads, the read of the other resolves first
OtherReadFirst ==
  /\ pc = "read"
  /\ other.state = "suspended"
  /\ other.language # language
  /\ language' = other.language
  /\ other' = [state |-> "suspended", language |-> language]
  /\ UNCHANGED <<framework, pc, lines, steps, stats, currentOrigin,
                 navigationHistory, result>>
  /\ UNCHANGED <<selVars, appVars, calls>>

\* the call that awaited goes on with the locals the call before it left
ResumeOther_SharedLocals ==
  /\ pc = "returned"
  /\ other.state = "suspended"
  /\ calls' = Append(calls, CallRecord)
  /\ language' = other.language
  /\ other' = [state |-> "finished", language |-> ""]
  /\ pc' = "read"
  /\ lines' = <<>>
  /\ result' = NoResult
  /\ UNCHANGED <<steps, stats, currentOrigin, navigationHistory>>
  /\ UNCHANGED framework
  /\ UNCHANGED <<selVars, appVars>>

\* a call has returned and the read of the call that awaited resolves
ResumeOther ==
  /\ pc = "returned"
  /\ other.state = "suspended"
  /\ calls' = Append(calls, CallRecord)
  /\ language' = other.language
  /\ other' = [state |-> "finished", language |-> ""]
  /\ pc' = "read"
  /\ lines' = <<>>
  /\ result' = NoResult
  /\ FreshLocals
  /\ UNCHANGED framework
  /\ UNCHANGED <<selVars, appVars>>

\* the line after lines in a trace of CallTraces
NextLines ==
  {t[Len(lines) + 1] : t \in {u \in CallTraces :
                                /\ Len(u) > Len(lines)
                                /\ SubSeq(u, 1, Len(lines)) = lines}}

CallsNext ==
  \/ ReadFile
  \/ \E line \in NextLines : PlaywrightProcessLine(line)
  \/ \E line \in NextLines : CypressProcessLine(line)
  \/ lines \in CallTraces /\ PlaywrightReturn
  \/ lines \in CallTraces /\ CypressReturn
  \/ NextCall
  \/ OverlappingCall
  \/ OtherReadFirst
  \/ ResumeOther

CallsInit ==
  /\ Init
  /\ language \in CallLanguages

CallsSpec == CallsInit /\ [][CallsNext]_vars

(***************************************************************************)
(* A run over a trace whose events have kinds of every fate: converted,    *)
(* auto-handled, unsupported, raising, and kinds that name a property of   *)
(* Object.prototype.                                                       *)
(***************************************************************************)
MaxStatsLines == 3

StatsLines ==
  {RawLine("garbage"),
   Ev("get", Str("https://a.test/x")),
   Ev("click", Num(5)),
   Ev("findElement", Str("[[drv] -> id: submit]")),
   Ev("submit", Str("[[drv] -> id: form]")),
   Ev("constructor", Undefined),
   Ev("__proto__", Undefined)}

StatsNext ==
  \/ ReadFile
  \/ ReadFileFails
  \/ \E line \in StatsLines : Len(lines) < MaxStatsLines /\ PlaywrightProcessLine(line)
  \/ \E line \in StatsLines : Len(lines) < MaxStatsLines /\ CypressProcessLine(line)
  \/ PlaywrightReturn
  \/ CypressReturn

StatsSpec == Init /\ [][StatsNext]_vars

(***************************************************************************)
(* Properties of the locator parser (SelectorSpec).                        *)
(***************************************************************************)
\* the rendering the dialect table gives to kind: x
ExpectedRendering(kind, x) ==
  CASE kind = "name" -> "[name=\"" \o x \o "\"]"
    [] kind = "css selector" -> x
    [] kind = "xpath" -> "xpath=" \o x
    [] kind = "tag name" -> x
    [] kind = "id" -> "#" \o x
    [] kind = "class" -> "." \o x
    [] OTHER -> kind \o ": " \o x

\* C9: for every value X, extractCleanSelector of [[drv] -> kind: X] is the
\* rendering of the dialect table for kind and X, and a target outside the
\* bracketed form that is not URL-shaped is returned verbatim.
C9_DialectTable ==
  selPc = "done" =>
    IF selInput.kind # ""
      THEN selOutput = Returns(ExpectedRendering(selInput.kind, selInput.x))
    ELSE (~ StartsWith(selInput.target, "http") /\ ~ StartsWith(selInput.target, "[http"))
           => selOutput = Returns(selInput.target)

\* C10: a css selector locator is rendered verbatim, character for
\* character, also when the CSS text holds [ and ].
C10_CssVerbatim ==
  (selPc = "done" /\ selInput.kind = "css selector")
    => (~ selOutput.throws /\ selOutput.value = selInput.x)

\* the target without a leading [ and without a trailing ]
StripEnclosing(t) ==
  LET a == IF StartsWith(t, "[") THEN 2 ELSE 1
      b == IF Len(t) >= a /\ CharAt(t, Len(t)) = "]" THEN Len(t) - 1 ELSE Len(t)
  IN SubSeq(t, a, b)

\* the target is a string outside the bracketed form that starts with http
\* or [http
IsUrlShaped(input) ==
  /\ input.given
  /\ input.kind = ""
  /\ (StartsWith(input.target, "http") \/ StartsWith(input.target, "[http"))

\* C11: for a URL-shaped target outside the bracketed form,
\* extractCleanSelector removes the enclosing [ and ] only and keeps every
\* other character of the URL.
C11_UrlKeepsInnerBrackets ==
  (selPc = "done" /\ IsUrlShaped(selInput))
    => selOutput = Returns(StripEnclosing(selInput.target))

\* C12: for an absent target, an empty target and every string target,
\* inside or outside the dialect, extractCleanSelector returns a string and
\* does not raise.
C12_ParserTotal ==
  selPc = "done" => (~ selOutput.throws /\ selOutput.value \in STRING)

\* the parser has returned for a locator of a dialect it does not know
C12_Witness ==
  /\ selPc = "done"
  /\ selInput = Bracketed("drv", "link text", "x")
  /\ selOutput = Returns("link text: x")

(***************************************************************************)
(* Properties of a conversion run.  A step of the loop is told by the      *)
(* trace growing by the line it visits.                                    *)
(***************************************************************************)
\* this step visits a line of the trace
Consumed == Len(lines') = Len(lines) + 1
\* the line this step visits
NewLine == lines'[Len(lines')]
\* this step appends exactly one fragment and keeps the earlier ones
Appended == Len(steps') = Len(steps) + 1 /\ SubSeq(steps', 1, Len(steps)) = steps
\* the fragment this step appends
NewStep == steps'[Len(steps')]
\* the line decodes to an object whose evt is "step.ok"
DecodesToStepOk(line) == line.text = "object" /\ line.evt = Str("step.ok")
\* the line decodes to a step.ok event of the kind k
IsEventOfKind(line, k) == DecodesToStepOk(line) /\ line.kind = Str(k)

\* the supported sets as the converters document them
DocumentedSupported(fw) ==
  IF fw = "playwright"
    THEN {"get", "click", "sendKeys", "clear", "getTagName", "Navigation.refresh",
          "Navigation.back", "Navigation.forward", "Wait.until"}
  ELSE {"get", "click", "sendKeys", "clear", "getTagName", "Navigation.refresh",
        "Navigation.back", "Navigation.forward"}

HasSupportedKind(line, fw) ==
  line.kind.t = "string" /\ line.kind.s \in DocumentedSupported(fw)

\* the disabled and the enabled back-navigation of the Cypress converter
IsDisabledBack(step) == StartsWith(step.action, "// cy.go('back')")
IsEnabledBack(step) == step.action = "cy.go('back')"

\* C1 as stated: the back fragment is the disabled one exactly when the
\* history holds at least 2 entries and its second-to-last entry differs
\* from currentOrigin, and the enabled one in every other case.
C1_BackGuardAsStated ==
  [][(framework = "cypress" /\ Consumed /\ Appended
        /\ IsEventOfKind(NewLine, "Navigation.back"))
       => LET n == Len(navigationHistory)
              crossOrigin == n >= 2 /\ navigationHistory[n - 1] # currentOrigin
          IN IF crossOrigin THEN IsDisabledBack(NewStep) ELSE IsEnabledBack(NewStep)]_vars

\* C1 amended: the back fragment is the disabled one exactly when the
\* history holds at least 2 entries and its second-to-last entry is an
\* origin (not null) that differs from currentOrigin; otherwise it is the
\* enabled cy.go('back').  get a.test/x, get b.test/y, back is disabled and
\* get a.test/x, get a.test/z, back is enabled.
C1_BackGuard ==
  [][(framework = "cypress" /\ Consumed /\ Appended
        /\ IsEventOfKind(NewLine, "Navigation.back"))
       => LET n == Len(navigationHistory)
              crossOrigin == /\ n >= 2
                             /\ navigationHistory[n - 1] # Null
                             /\ navigationHistory[n - 1] # currentOrigin
          IN /\ IF crossOrigin THEN IsDisabledBack(NewStep) ELSE IsEnabledBack(NewStep)
             /\ lines' = <<Ev("get", Str("https://a.test/x")),
                           Ev("get", Str("https://b.test/y")),
                           Ev("Navigation.back", Undefined)>>
                  => IsDisabledBack(NewStep)
             /\ lines' = <<Ev("get", Str("https://a.test/x")),
                           Ev("get", Str("https://a.test/z")),
                           Ev("Navigation.back", Undefined)>>
                  => IsEnabledBack(NewStep)]_vars

\* a back-navigation was disabled after navigations to two origins
C1_Witness ==
  /\ framework = "cypress"
  /\ Len(lines) = 3
  /\ IsEventOfKind(lines[3], "Navigation.back")
  /\ navigationHistory = <<Str("https://a.test"), Str("https://b.test")>>
  /\ Len(steps) = 3
  /\ IsDisabledBack(steps[3])

\* C2: every step.ok event whose kind is in the converter's supported set
\* appends exactly one fragment and increments convertedActions by one,
\* whatever its target and whatever the language.
C2_SupportedEventConverted ==
  [][(Consumed /\ DecodesToStepOk(NewLine) /\ HasSupportedKind(NewLine, framework))
       => /\ Appended
          /\ stats'.convertedActions = stats.convertedActions + 1]_vars

\* the decompositions of a selector as <parent> option...:has-text("<text>")
Decompositions(selector) ==
  LET n == Len(selector)
      MH == {mh \in (1..n) \X (1..n) :
               /\ StartsWithAt(selector, " option", mh[1] + 1)
               /\ mh[2] >= mh[1] + 8
               /\ StartsWithAt(selector, ":has-text(\"", mh[2])
               /\ mh[2] + 11 <= n - 2
               /\ StartsWithAt(selector, "\")", n - 1)}
  IN {[parent |-> SubSeq(selector, 1, mh[1]),
       text |-> SubSeq(selector, mh[2] + 11, n - 2)] : mh \in MH}

\* the select-by-label fragment of a converter on parent and text
IsSelectByLabel(step, fw, lang, d) ==
  IF fw = "cypress"
    THEN step.action = "cy.get(\"" \o escapeQuotes(d.parent) \o "\").select(\""
                         \o escapeQuotes(d.text) \o "\")"
  ELSE IF lang = "python"
    THEN step.action = "await page.select_option(\"" \o escapeQuotes(d.parent)
                         \o "\", label=\"" \o escapeQuotes(d.text) \o "\")"
  ELSE step.action = "await page.selectOption(\"" \o escapeQuotes(d.parent)
                       \o "\", { label: \"" \o escapeQuotes(d.text) \o "\" });"

\* the ordinary click fragment of a converter on a selector
IsClick(step, fw, lang, selector) ==
  IF fw = "cypress"
    THEN step.action = "cy.get(\"" \o escapeQuotes(selector) \o "\").click()"
  ELSE IF lang = "python"
    THEN step.action = "await page.click(\"" \o escapeQuotes(selector) \o "\")"
  ELSE step.action = "await page.click(\"" \o escapeQuotes(selector) \o "\");"

\* C3: a click whose rendered selector has the form
\* <parent> option...:has-text("<text>") appends a select-by-label fragment
\* on <parent> with label <text>; a click whose selector contains option
\* but has no such decomposition appends the ordinary click fragment.
C3_OptionClickSelects ==
  [][(Consumed /\ IsEventOfKind(NewLine, "click") /\ NewLine.target.t = "string")
       => LET selector == extractCleanSelector(NewLine.target).value
          IN IF Decompositions(selector) # {}
               THEN /\ Appended
                    /\ \E d \in Decompositions(selector) :
                         IsSelectByLabel(NewStep, framework, language, d)
             ELSE Includes(selector, "option")
                    => (Appended /\ IsClick(NewStep, framework, language, selector))]_vars

\* a line the converters ignore: blank, not JSON, or decoding to a value
\* whose evt is absent or is not "step.ok"
IsIgnoredLine(line) ==
  \/ line.text \in {"blank", "garbage", "null"}
  \/ line.text = "object" /\ line.evt # Str("step.ok")

\* C4: a line that is blank, is not valid JSON, or decodes to a value whose
\* evt is absent or different from "step.ok" changes none of the counters,
\* the breakdown, the fragment list, navigationHistory and currentOrigin,
\* and the loop goes on.
C4_IgnoredLineChangesNothing ==
  [][(Consumed /\ IsIgnoredLine(NewLine))
       => /\ UNCHANGED <<stats, steps, navigationHistory, currentOrigin>>
          /\ pc' = "forEach"]_vars

\* an ignored line was followed by an event that was translated
C4_Witness ==
  /\ Len(lines) = 2
  /\ IsIgnoredLine(lines[1])
  /\ lines[1].text # "blank"
  /\ DecodesToStepOk(lines[2])
  /\ Len(steps) = 1
  /\ stats.totalActions = 1

\* the count of a key of the breakdown, 0 for a key it does not hold
CountOf(actionBreakdown, key) ==
  IF key \in DOMAIN actionBreakdown THEN actionBreakdown[key].n ELSE 0

\* C5: in the Cypress converter a step.ok event whose kind is findElement,
\* findElements, ImplicitWait.set or Navigation.to leaves totalActions
\* unchanged and increments actionBreakdown[kind] by one.
C5_AutoHandledNotCounted ==
  [][(framework = "cypress" /\ Consumed /\ DecodesToStepOk(NewLine)
        /\ NewLine.kind.t = "string"
        /\ NewLine.kind.s \in {"findElement", "findElements", "ImplicitWait.set",
                               "Navigation.to"})
       => /\ stats'.totalActions = stats.totalActions
          /\ CountOf(stats'.actionBreakdown, NewLine.kind.s)
               = CountOf(stats.actionBreakdown, NewLine.kind.s) + 1]_vars

\* an auto-handled event and a counted event were both processed
C5_Witness ==
  /\ framework = "cypress"
  /\ Len(lines) = 2
  /\ IsEventOfKind(lines[1], "click")
  /\ IsEventOfKind(lines[2], "Navigation.to")
  /\ stats.totalActions = 1
  /\ CountOf(stats.actionBreakdown, "Navigation.to") = 1

\* a comment-only fragment that reports an unsupported action
IsUnsupportedComment(step, fw, lang) ==
  /\ \/ StartsWith(step.action, "// ")
     \/ fw = "playwright" /\ lang = "python" /\ StartsWith(step.action, "# ")
  /\ Includes(step.action, "Unsupported action: ")

\* what C6 asserts of a step that visits an unsupported event
SkipsWithComment ==
  /\ Appended
  /\ IsUnsupportedComment(NewStep, framework, language)
  /\ stats'.skippedActions = stats.skippedActions + 1
  /\ stats'.convertedActions = stats.convertedActions
  /\ pc' = "forEach"

\* C6 as stated: in both converters every step.ok event whose kind is not
\* in the supported set appends one comment-only fragment, increments
\* skippedActions, leaves convertedActions and does not stop the loop.
C6_UnsupportedSkippedAsStated ==
  [][(Consumed /\ DecodesToStepOk(NewLine) /\ ~ HasSupportedKind(NewLine, framework))
       => SkipsWithComment]_vars

\* C6 amended: the same for every step.ok event whose kind (a string, or
\* absent) is not in the supported set and, in the Cypress converter, not
\* in the auto-handled allow-list either.
C6_UnsupportedSkipped ==
  [][(Consumed /\ DecodesToStepOk(NewLine) /\ ~ HasSupportedKind(NewLine, framework)
        /\ ~ (/\ framework = "cypress"
              /\ NewLine.kind.t = "string"
              /\ NewLine.kind.s \in {"findElement", "findElements",
                                     "ImplicitWait.set", "Navigation.to"}))
       => SkipsWithComment]_vars

\* an unsupported event was skipped and the next event was translated
C6_Witness ==
  /\ Len(lines) = 2
  /\ IsEventOfKind(lines[1], "submit")
  /\ IsEventOfKind(lines[2], "get")
  /\ Len(steps) = 2
  /\ stats.skippedActions = 1
  /\ stats.convertedActions = 1

\* a fragment that is a TODO or an unsupported-action remark
IsTodoFragment(step) ==
  \/ Includes(step.action, "TODO")
  \/ Includes(step.action, "Unsupported action")
  \/ Includes(step.comment, "Unsupported action")

\* C7: in the Playwright converter a Wait.until event increments
\* convertedActions and not skippedActions and its fragment is not a
\* TODO / "Unsupported action" fragment; in the Cypress converter
\* Wait.until is outside the supported set.
C7_WaitUntilAcknowledged ==
  [][(Consumed /\ IsEventOfKind(NewLine, "Wait.until"))
       => IF framework = "playwright"
            THEN /\ stats'.convertedActions = stats.convertedActions + 1
                 /\ stats'.skippedActions = stats.skippedActions
                 /\ Appended
                 /\ ~ IsTodoFragment(NewStep)
          ELSE /\ stats'.convertedActions = stats.convertedActions
               /\ stats'.skippedActions = stats.skippedActions + 1]_vars

\* the fragment a converter makes of a line, given the navigation context
FragmentOf(line, fw, lang, origin, history) ==
  IF HasSupportedKind(line, fw)
    THEN IF fw = "playwright" THEN PlaywrightConvertStep(line, lang).step
         ELSE CypressConvertStep(line, lang, origin, history).step
  ELSE IF fw = "playwright" THEN PlaywrightUnsupportedStep(line, lang)
       ELSE CypressUnsupportedStep(line, lang)

\* the text of the first n fragments in the test body, in list order
RECURSIVE BodyOfFirst(_, _, _)
BodyOfFirst(list, n, fw) ==
  IF n = 0 THEN ""
  ELSE BodyOfFirst(list, n - 1, fw)
         \o (IF n > 1 THEN "\n\n" ELSE "")
         \o "    " \o (IF fw = "playwright" /\ language = "python" THEN "# " ELSE "// ")
         \o list[n].comment \o "\n    " \o list[n].action
         \o (IF fw = "cypress" THEN ";" ELSE "")

\* C8: the fragment list keeps the trace order: a step of the loop leaves
\* the list alone or appends the fragment of the line it visits after all
\* earlier fragments, and the emitted test body lists the fragments in
\* that order, none reordered, duplicated or merged.
C8_TraceOrderPreserved ==
  [][/\ Consumed =>
          \/ steps' = steps
          \/ /\ Appended
             /\ NewStep = FragmentOf(NewLine, framework, language, currentOrigin,
                                     navigationHistory)
     /\ ~ Consumed => steps' = steps
     /\ (pc = "forEach" /\ pc' = "returned")
          => result'.content[2] = BodyOfFirst(steps, Len(steps), framework)]_vars

\* a run returned a document made of two different fragments
C8_Witness ==
  /\ pc = "returned"
  /\ Len(steps) = 2
  /\ steps[1] # steps[2]
  /\ IsEventOfKind(lines[1], "get")
  /\ IsEventOfKind(lines[2], "click")
  /\ result.content[2] # ""

(***************************************************************************)
(* Properties of the fragment of a single event (EventSpec).               *)
(***************************************************************************)
\* the selector the locator parser renders for the target of the line
RenderedSelector(line) == extractCleanSelector(line.target).value

\* reading a double-quoted literal of t from position i, just after its
\* opening quote: a backslash makes the character after it part of the
\* value, the first quote without a backslash before it ends the literal
RECURSIVE ReadLiteral(_, _)
ReadLiteral(t, i) ==
  IF i > Len(t) \/ CharAt(t, i) = "\"" THEN ""
  ELSE IF CharAt(t, i) = "\\"
    THEN IF i + 1 > Len(t) THEN ""
         ELSE CharAt(t, i + 1) \o ReadLiteral(t, i + 2)
  ELSE CharAt(t, i) \o ReadLiteral(t, i + 1)

\* the value of the first double-quoted literal of t
FirstLiteral(t) == ReadLiteral(t, IndexOf(t, "\"", 1) + 1)

\* the event is one whose fragment embeds the rendered selector sel whole
EmbedsSelector(line, sel) ==
  /\ DecodesToStepOk(line)
  /\ \E k \in EmbeddingKinds : line.kind = Str(k)
  /\ line.kind = Str("click") => ~ Includes(sel, "option")

\* C13, as stated: every rendered selector that contains a double quote is
\* embedded in a double-quoted literal that reads back as the selector.
C13_LiteralRoundTripAsStated ==
  [][Consumed =>
       \A sel \in {RenderedSelector(NewLine)} :
         (EmbedsSelector(NewLine, sel) /\ Includes(sel, "\""))
           => (Appended /\ FirstLiteral(NewStep.action) = sel)]_vars

\* C13: every rendered selector that contains a double quote and no
\* backslash is embedded in a double-quoted literal that reads back, up to
\* its first unescaped quote and with the escapes undone, as the selector.
C13_LiteralRoundTrip ==
  [][Consumed =>
       \A sel \in {RenderedSelector(NewLine)} :
         (EmbedsSelector(NewLine, sel) /\ Includes(sel, "\"")
            /\ ~ Includes(sel, "\\"))
           => (Appended /\ FirstLiteral(NewStep.action) = sel)]_vars

\* a click on the selector a"a was emitted with its quote escaped
C13_Witness ==
  /\ framework = "cypress"
  /\ lines = <<Ev("click", Str("a\"a"))>>
  /\ Len(steps) = 1
  /\ steps[1].action = "cy.get(\"a\\\"a\").click()"

\* the rules of the input-value heuristic in the order the claim gives
ValueRules ==
  <<[sub |-> "password", value |-> "testPassword123"],
    [sub |-> "email", value |-> "test@example.com"],
    [sub |-> "text", value |-> "Sample text input"],
    [sub |-> "textarea", value |-> "This is sample textarea content"],
    [sub |-> "name", value |-> "John Doe"]>>

\* the value of the first rule whose substring occurs in the selector
FirstRuleValue(selector) ==
  LET hits == {i \in 1..Len(ValueRules) : Includes(selector, ValueRules[i].sub)}
  IN IF hits = {} THEN "test-value" ELSE ValueRules[MinOf(hits)].value

\* the text between the last two double quotes of t
LastLiteral(t) ==
  LET Q == {i \in 1..Len(t) : CharAt(t, i) = "\""}
      last == CHOOSE i \in Q : \A j \in Q : j <= i
      prev == CHOOSE i \in Q \ {last} : \A j \in Q \ {last} : j <= i
  IN SubSeq(t, prev + 1, last - 1)

\* C14: in both converters the value a sendKeys event is filled with is the
\* value of the first rule, in the order password, email, text, textarea,
\* name, whose substring occurs in the rendered selector, and test-value
\* when none occurs.
C14_FirstRuleWins ==
  [][(Consumed /\ IsEventOfKind(NewLine, "sendKeys"))
       => \A sel \in {RenderedSelector(NewLine)} :
            Appended /\ LastLiteral(NewStep.action) = FirstRuleValue(sel)]_vars

\* [name="email"] was filled with the e-mail placeholder
C14_Witness ==
  /\ lines = <<Ev("sendKeys", Str("[[drv] -> name: email]"))>>
  /\ Len(steps) = 1
  /\ LastLiteral(steps[1].action) = "test@example.com"

\* C15: a sendKeys event on a selector that contains textarea, and neither
\* password nor email, is filled with the textarea placeholder paragraph.
C15_TextareaValue ==
  [][(Consumed /\ IsEventOfKind(NewLine, "sendKeys"))
       => \A sel \in {RenderedSelector(NewLine)} :
            (Includes(sel, "textarea") /\ ~ Includes(sel, "password")
               /\ ~ Includes(sel, "email"))
              => (Appended
                  /\ LastLiteral(NewStep.action) = "This is sample textarea content")]_vars

(***************************************************************************)
(* Properties of the emitted document (Spec).  The document is the text of *)
(* its three parts in a row: the part before the fragments, the            *)
(* fragments, the part after them.                                         *)
(***************************************************************************)
\* the number of places of t at which p occurs
Occurrences(t, p) == Cardinality({i \in 1..Len(t) : StartsWithAt(t, p, i)})

\* the text that opens a test case in the documents of a framework
TestOpening(fw, lang) ==
  IF fw = "cypress" THEN "\n  it('"
  ELSE IF lang = "python" THEN "async def test_"
  ELSE "test('"

\* the document a framework emits for the empty trace
EmptyDocument(fw, lang) ==
  IF fw = "cypress" THEN CypressGenerateTestFile(<<>>, lang)
  ELSE PlaywrightGenerateTestFile(<<>>, lang)

\* the text names a form-interaction test case
HasFormTest(t) ==
  \/ Includes(t, "should handle form interactions")
  \/ Includes(t, "Form Interaction Test")
  \/ Includes(t, "def test_form_interaction")

\* the text names a same-origin navigation test case
HasNavigationTest(t) ==
  \/ Includes(t, "should handle single-origin navigation")
  \/ Includes(t, "Navigation Test")
  \/ Includes(t, "def test_navigation")

\* the document opens one test case before the fragments and n test cases
\* after them
HasSupplementary(doc, fw, lang, n) ==
  /\ Occurrences(doc[1], TestOpening(fw, lang)) = 1
  /\ Occurrences(doc[3], TestOpening(fw, lang)) = n

TwoSupplementary(doc, fw, lang) ==
  /\ HasSupplementary(doc, fw, lang, 2)
  /\ HasFormTest(doc[3])
  /\ HasNavigationTest(doc[3])

OneSupplementary(doc, fw, lang) ==
  /\ HasSupplementary(doc, fw, lang, 1)
  /\ HasFormTest(doc[3])
  /\ ~ HasNavigationTest(doc[3])

\* the parts of the returned document around the fragments are those of the
\* document for the empty trace
FixedAroundFragments ==
  /\ result.content[1] = EmptyDocument(framework, language)[1]
  /\ result.content[3] = EmptyDocument(framework, language)[3]

HasResult(r) == r.content # <<>> /\ r.filename # "" /\ r.stats # <<>>

\* C19: convert fails only when the trace cannot be read: the call rejects
\* from the read alone and then holds no content, filename or stats; once
\* the read has succeeded no line makes the call leave the loop other than
\* by returning, returning is possible after every line, and the call that
\* returns holds a result.
C19_OnlyReadFailureRejects ==
  [][/\ pc = "read" => (pc' \in {"forEach", "rejected"} /\ result' = NoResult)
     /\ pc = "forEach"
          => /\ pc' \in {"forEach", "returned"}
             /\ ENABLED (PlaywrightReturn \/ CypressReturn)
     /\ pc' = "returned" => (pc = "forEach" /\ HasResult(result'))
     /\ pc \notin {"read", "forEach"} => pc' = pc]_vars

\* a run returned a result after a line that is not JSON and an event whose
\* translation raised
C19_Witness ==
  /\ pc = "returned"
  /\ Len(lines) = 2
  /\ lines[1].text = "garbage"
  /\ IsEventOfKind(lines[2], "click")
  /\ lines[2].target = Num(5)
  /\ steps = <<>>
  /\ HasResult(result)

(***************************************************************************)
(* Properties of several convert calls (CallsSpec).                        *)
(***************************************************************************)
\* the calls that have returned, the one that has just returned included
Completed ==
  {calls[i] : i \in 1..Len(calls)}
    \cup (IF pc = "returned" THEN {CallRecord} ELSE {})

\* two calls on the same converter, trace content and language
SameInput(a, b) ==
  a.framework = b.framework /\ a.language = b.language /\ a.lines = b.lines

\* C16: two convert calls on the same converter with the same trace content
\* and the same language return the same content, filename and stats,
\* whatever calls ran before or in between.
C16_Deterministic ==
  \A a, b \in Completed : SameInput(a, b) => a.result = b.result

\* the first and the third call converted the same navigation trace to the
\* same language, the second call another trace
C16_Witness ==
  /\ pc = "returned"
  /\ Len(calls) = 2
  /\ Len(lines) = 3
  /\ calls[1].lines = lines
  /\ calls[1].language = language
  /\ calls[2].lines # lines
  /\ calls[1].result = result
  /\ HasResult(result)

\* the languages each framework has a template for
SupportedLanguages(fw) ==
  IF fw = "playwright" THEN {"javascript", "typescript", "python"}
  ELSE {"javascript", "typescript"}

\* C18: a convert call with a language outside the languages of its
\* framework returns a result, and it is the content, filename and stats of
\* the call on the same trace with the language javascript.
C18_UnsupportedLanguageIsJavaScript ==
  \A a, b \in Completed :
    (/\ a.framework = b.framework
     /\ a.lines = b.lines
     /\ a.language \notin SupportedLanguages(a.framework)
     /\ b.language = "javascript")
      => (HasResult(a.result) /\ a.result = b.result)

\* Cypress converted a trace with an unsupported event once for python and
\* once for javascript
C18_Witness ==
  /\ pc = "returned"
  /\ framework = "cypress"
  /\ language = "python"
  /\ Len(lines) = 2
  /\ IsEventOfKind(lines[2], "submit")
  /\ Len(calls) >= 1
  /\ calls[1].language = "javascript"
  /\ calls[1].lines = lines
  /\ calls[1].result = result

\* C20: a convert call that overlapped another call at its read ends with
\* the stats, the fragment list, the navigationHistory and the
\* currentOrigin of a call with the same arguments that ran alone.
C20_OverlapSharesNothing ==
  \A a, b \in Completed :
    (SameInput(a, b) /\ a.overlapped /\ ~ b.overlapped)
      => /\ a.stats = b.stats
         /\ a.steps = b.steps
         /\ a.navigationHistory = b.navigationHistory
         /\ a.currentOrigin = b.currentOrigin

\* two Cypress calls overlapped, then a call alone converted the navigation
\* trace the second of them had converted, with the same outcome
C20_Witness ==
  /\ pc = "returned"
  /\ framework = "cypress"
  /\ other = NoCall
  /\ Len(calls) = 2
  /\ calls[1].overlapped
  /\ calls[2].overlapped
  /\ Len(calls[1].lines) = 2
  /\ Len(lines) = 3
  /\ calls[2].lines = lines
  /\ calls[2].language = language
  /\ calls[2].navigationHistory = navigationHistory
  /\ Len(navigationHistory) = 2

(***************************************************************************)
(* Properties of the Playwright converter on navigation traces (NavSpec).  *)
(***************************************************************************)
\* the enabled go-back call of the Playwright API in the language
PlaywrightGoBack(lang) ==
  IF lang = "python" THEN "await page.go_back()" ELSE "await page.goBack();"

\* C21: in the Playwright converter the fragment of a Navigation.back event
\* is the enabled go-back call, and the fragment of an event that occurred
\* earlier in the trace is the fragment the list already holds for it: the
\* events before an event do not change its fragment.
C21_PlaywrightBackUnconditional ==
  [][(framework = "playwright" /\ Consumed /\ Appended)
       => /\ IsEventOfKind(NewLine, "Navigation.back")
               => NewStep.action = PlaywrightGoBack(language)
          /\ (\E i \in 1..Len(lines) : lines[i] = NewLine)
               => \E k \in 1..Len(steps) : steps[k] = NewStep]_vars

\* Playwright emitted the enabled go-back call after navigations to two
\* origins
C21_Witness ==
  /\ framework = "playwright"
  /\ language = "python"
  /\ lines = <<Ev("get", Str("https://a.test/x")), Ev("get", Str("https://b.test/y")),
               Ev("Navigation.back", Undefined)>>
  /\ Len(steps) = 3
  /\ steps[3].action = "await page.go_back()"

(***************************************************************************)
(* Properties of the statistics (Spec).                                    *)
(***************************************************************************)
\* the number of lines visited so far that decode to a step.ok event
StepOkSeen == Cardinality({i \in 1..Len(lines) : DecodesToStepOk(lines[i])})

\* C22: in the Playwright converter totalActions is, after every line, the
\* number of lines visited that decode to an object whose evt is step.ok,
\* the kinds of the Cypress allow-list included.
C22_PlaywrightTotalCountsAll ==
  framework = "playwright" => stats.totalActions = StepOkSeen

\* Playwright counted a findElement event and did not count a step.fail
\* event
C22_Witness ==
  /\ framework = "playwright"
  /\ Len(lines) = 2
  /\ IsEventOfKind(lines[1], "findElement")
  /\ lines[2].evt = Str("step.fail")
  /\ stats.totalActions = 1

(***************************************************************************)
(* Properties of the statistics on events of every fate (StatsSpec).       *)
(***************************************************************************)
\* the entry of the breakdown is a number that is an integer >= 0
IsCount(v) == v.t = "number" /\ v.n \in Nat

\* C23: after every processed line convertedActions + skippedActions is at
\* most totalActions, and the three counters and every entry of
\* actionBreakdown are integers >= 0 that the line does not decrease.
C23_CountersMonotone ==
  [][Consumed =>
       /\ stats'.convertedActions + stats'.skippedActions <= stats'.totalActions
       /\ \A c \in {"totalActions", "convertedActions", "skippedActions"} :
            stats'[c] \in Nat /\ stats'[c] >= stats[c]
       /\ \A k \in DOMAIN stats'.actionBreakdown :
            /\ IsCount(stats'.actionBreakdown[k])
            /\ k \in DOMAIN stats.actionBreakdown
                 => stats'.actionBreakdown[k].n >= stats.actionBreakdown[k].n]_vars

\* the sum of the counts of the entries with a key in S
RECURSIVE SumOfCounts(_, _)
SumOfCounts(breakdown, S) ==
  IF S = {} THEN 0
  ELSE LET k == CHOOSE k \in S : TRUE
       IN breakdown[k].n + SumOfCounts(breakdown, S \ {k})

\* C28: in both converters, after every processed line, the fragment list
\* holds convertedActions + skippedActions fragments, and the entries of
\* actionBreakdown are counts whose sum is the number of decoded step.ok
\* events seen so far.
C28_FragmentsAndBreakdownSum ==
  /\ Len(steps) = stats.convertedActions + stats.skippedActions
  /\ \A k \in DOMAIN stats.actionBreakdown : IsCount(stats.actionBreakdown[k])
  /\ SumOfCounts(stats.actionBreakdown, DOMAIN stats.actionBreakdown) = StepOkSeen

(***************************************************************************)
(* Properties of the navigation state of the Cypress converter (NavSpec).  *)
(***************************************************************************)
\* scheme://host of an absolute url, "" for a text without ://
SchemeAndHost(url) ==
  LET i == IndexOf(url, "://", 1)
      j == IF i = 0 THEN 0 ELSE IndexOf(url, "/", i + 3)
  IN IF i = 0 THEN ""
     ELSE IF j = 0 THEN url
     ELSE SubSeq(url, 1, j - 1)

\* the step leaves the history alone or appends one entry to it
GrowsByAtMostOne ==
  \/ navigationHistory' = navigationHistory
  \/ /\ Len(navigationHistory') = Len(navigationHistory) + 1
     /\ SubSeq(navigationHistory', 1, Len(navigationHistory)) = navigationHistory

\* currentOrigin is null while the history is empty and its last entry
\* otherwise
CurrentIsLast ==
  currentOrigin' = IF navigationHistory' = <<>> THEN Null
                   ELSE navigationHistory'[Len(navigationHistory')]

\* C24, as stated: navigationHistory is append-only and grows only on a get
\* event, by one entry that is the origin scheme+host of the event's URL;
\* no other event changes navigationHistory or currentOrigin; currentOrigin
\* is null while the history is empty and its last entry otherwise.
C24_HistoryAppendOnlyAsStated ==
  [][(framework = "cypress" /\ Consumed)
       => /\ GrowsByAtMostOne
          /\ CurrentIsLast
          /\ ~ IsEventOfKind(NewLine, "get")
               => UNCHANGED <<navigationHistory, currentOrigin>>
          /\ navigationHistory' # navigationHistory
               => /\ NewLine.target.t = "string"
                  /\ SchemeAndHost(NewLine.target.s) # ""
                  /\ navigationHistory'[Len(navigationHistory')]
                       = Str(SchemeAndHost(NewLine.target.s))]_vars

\* C24: navigationHistory is append-only and grows only on a get event with
\* a non-empty URL, by one entry: the origin scheme+host of the URL, or null
\* when the URL is not absolute; no other event changes navigationHistory
\* or currentOrigin; currentOrigin is null while the history is empty and
\* its last entry (which may be null) otherwise.
C24_HistoryAppendOnly ==
  [][(framework = "cypress" /\ Consumed)
       => /\ GrowsByAtMostOne
          /\ CurrentIsLast
          /\ ~ IsEventOfKind(NewLine, "get")
               => UNCHANGED <<navigationHistory, currentOrigin>>
          /\ navigationHistory' # navigationHistory
               => /\ NewLine.target.t = "string"
                  /\ NewLine.target.s # ""
                  /\ navigationHistory'[Len(navigationHistory')]
                       = IF SchemeAndHost(NewLine.target.s) = "" THEN Null
                         ELSE Str(SchemeAndHost(NewLine.target.s))
          /\ (IsEventOfKind(NewLine, "get") /\ NewLine.target.t = "string"
                /\ NewLine.target.s # "")
               => navigationHistory' # navigationHistory]_vars

\* the history holds an origin and a null entry, and a back event after
\* them left it alone
C24_Witness ==
  /\ framework = "cypress"
  /\ Len(lines) = 3
  /\ IsEventOfKind(lines[3], "Navigation.back")
  /\ navigationHistory = <<Str("https://a.test"), Null>>
  /\ currentOrigin = Null

(***************************************************************************)
(* The browser history the emitted Cypress fragments build (BackSpec).     *)
(***************************************************************************)
IsVisit(step) == StartsWith(step.action, "cy.visit(\"")
\* the url between the quotes of cy.visit("...")
VisitedUrl(step) == SubSeq(step.action, 11, Len(step.action) - 2)

\* the fragments from the i-th on are run with the history stack and the
\* position at in it: every enabled back that has a page to return to
\* stays within the origin of the page it leaves
RECURSIVE BacksStayInOrigin(_, _, _, _)
BacksStayInOrigin(list, i, stack, at) ==
  IF i > Len(list) THEN TRUE
  ELSE IF IsVisit(list[i])
    THEN BacksStayInOrigin(list, i + 1,
                           Append(SubSeq(stack, 1, at), VisitedUrl(list[i])), at + 1)
  ELSE IF IsEnabledBack(list[i])
    THEN IF at >= 2
           THEN /\ SchemeAndHost(stack[at]) = SchemeAndHost(stack[at - 1])
                /\ BacksStayInOrigin(list, i + 1, stack, at - 1)
         ELSE BacksStayInOrigin(list, i + 1, stack, 0)
  ELSE BacksStayInOrigin(list, i + 1, stack, at)

\* C27: with the browser history taken as the stack that the emitted
\* cy.visit calls and the enabled cy.go('back') calls build, every enabled
\* cy.go('back') emitted after at least two visits moves between two pages
\* of the same origin.
C27_EnabledBackSameOrigin ==
  framework = "cypress" => BacksStayInOrigin(steps, 1, <<>>, 0)

(***************************************************************************)
(* The Python API names of the Playwright converter (Spec).                *)
(***************************************************************************)
\* the click event of the trace that selects an option by its text
OptionClick == Ev("click", Str("[[drv] -> css selector: select option:has-text(\"Two\")]"))

\* C25: with language python the Playwright converter emits the framework
\* call of every trace-derived fragment under its snake_case name: go_back
\* for Navigation.back, go_forward for Navigation.forward, select_option
\* in the fragment of an option selection, to_be_visible for getTagName.
C25_PythonSnakeCase ==
  [][(framework = "playwright" /\ language = "python" /\ Consumed)
       => /\ IsEventOfKind(NewLine, "Navigation.back")
               => Appended /\ Includes(NewStep.action, "page.go_back()")
          /\ IsEventOfKind(NewLine, "Navigation.forward")
               => Appended /\ Includes(NewStep.action, "page.go_forward()")
          /\ IsEventOfKind(NewLine, "getTagName")
               => Appended /\ Includes(NewStep.action, ").to_be_visible()")
          /\ (NewLine = OptionClick /\ Appended)
               => Includes(NewStep.action, "page.select_option(")]_vars

(***************************************************************************)
(* The browser client: the framework and language selection of              *)
(* FrameworkMigrationApp and the convert request it sends (ClientSpec).    *)
(***************************************************************************)
\* most convert requests the client sends in a run
MaxRequests == 2

\* the language codes GET /api/frameworks lists for each framework
ApiFrameworks ==
  [playwright |-> {"javascript", "typescript", "python"},
   cypress |-> {"javascript", "typescript"}]

\* the constructor has run: init() has set the listeners up and
\* loadFrameworks awaits the response
ClientInit ==
  /\ ConvIdle
  /\ SelIdle
  /\ SingleCall
  /\ ServerIdle
  /\ app = [loadFrameworks |-> "awaiting", frameworks |-> <<>>, currentStep |-> 1,
            jobId |-> Null, selectedFramework |-> Null, selectedLanguage |-> Null]
  /\ dom = [frameworkOptions |-> {}, languageOptions |-> {},
            languageSelectionHidden |-> TRUE, startConversionDisabled |-> TRUE]
  /\ sent = <<>>

nonClientVars == <<convVars, selVars, callVars, serverVars>>

\* loadFrameworks: the response arrives, renderFrameworkOptions
LoadFrameworks ==
  /\ app.loadFrameworks = "awaiting"
  /\ app' = [app EXCEPT !.loadFrameworks = "done", !.frameworks = ApiFrameworks]
  /\ dom' = [dom EXCEPT !.frameworkOptions = DOMAIN ApiFrameworks]
  /\ UNCHANGED sent
  /\ UNCHANGED nonClientVars

\* loadFrameworks: the request fails, showError
LoadFrameworksFails ==
  /\ app.loadFrameworks = "awaiting"
  /\ app' = [app EXCEPT !.loadFrameworks = "failed"]
  /\ UNCHANGED <<dom, sent>>
  /\ UNCHANGED nonClientVars

\* uploadFile: the upload is answered with a job id, showStep(2)
UploadFile ==
  /\ app.currentStep = 1
  /\ app' = [app EXCEPT !.jobId = Str("job-1"), !.currentStep = 2]
  /\ UNCHANGED <<dom, sent>>
  /\ UNCHANGED nonClientVars

\* click on proceedToConvert: showStep(3)
ProceedToConvert ==
  /\ app.currentStep = 2
  /\ app' = [app EXCEPT !.currentStep = 3]
  /\ UNCHANGED <<dom, sent>>
  /\ UNCHANGED nonClientVars

\* click on a framework option: selectFramework(framework), which renders
\* the language options of the framework
selectFramework(fw) ==
  /\ fw \in dom.frameworkOptions
  /\ app' = [app EXCEPT !.selectedFramework = Str(fw)]
  /\ dom' = [dom EXCEPT !.languageOptions = app.frameworks[fw],
                        !.languageSelectionHidden = FALSE]
  /\ UNCHANGED sent
  /\ UNCHANGED nonClientVars

\* click on a language option: selectLanguage(language.code)
selectLanguage(lang) ==
  /\ ~ dom.languageSelectionHidden
  /\ lang \in dom.languageOptions
  /\ app' = [app EXCEPT !.selectedLanguage = Str(lang)]
  /\ dom' = [dom EXCEPT !.startConversionDisabled = FALSE]
  /\ UNCHANGED sent
  /\ UNCHANGED nonClientVars

\* click on startConversion, up to the fetch: the request goes out unless a
\* selection or the job id is missing
startConversion ==
  /\ ~ dom.startConversionDisabled
  /\ Len(sent) < MaxRequests
  /\ IF ~ Truthy(app.jobId) \/ ~ Truthy(app.selectedFramework)
          \/ ~ Truthy(app.selectedLanguage)
       THEN UNCHANGED sent
     ELSE sent' = Append(sent, [framework |-> app.selectedFramework.s,
                                language |-> app.selectedLanguage.s])
  /\ UNCHANGED <<app, dom>>
  /\ UNCHANGED nonClientVars

\* startConversion, after the fetch: the response is shown, showStep(4)
ConversionResponse ==
  /\ sent # <<>>
  /\ app.currentStep = 3
  /\ app' = [app EXCEPT !.currentStep = 4]
  /\ UNCHANGED <<dom, sent>>
  /\ UNCHANGED nonClientVars

\* click on startNew: resetApp()
resetApp ==
  /\ app.currentStep = 4
  /\ app' = [app EXCEPT !.currentStep = 1, !.jobId = Null,
                        !.selectedFramework = Null, !.selectedLanguage = Null]
  /\ dom' = [dom EXCEPT !.languageSelectionHidden = TRUE,
                        !.startConversionDisabled = TRUE]
  /\ UNCHANGED sent
  /\ UNCHANGED nonClientVars

ClientNext ==
  \/ LoadFrameworks
  \/ LoadFrameworksFails
  \/ UploadFile
  \/ ProceedToConvert
  \/ \E fw \in DOMAIN ApiFrameworks : selectFramework(fw)
  \/ \E lang \in UNION {ApiFrameworks[fw] : fw \in DOMAIN ApiFrameworks} :
       selectLanguage(lang)
  \/ startConversion
  \/ ConversionResponse
  \/ resetApp

ClientSpec == ClientInit /\ [][ClientNext]_vars

\* C26: every convert request the client sends carries a (framework,
\* language) pair that the framework lists among its languages; python is
\* never sent with cypress.
C26_SentPairListed ==
  \A i \in 1..Len(sent) :
    /\ sent[i].framework \in DOMAIN ApiFrameworks
    /\ sent[i].language \in ApiFrameworks[sent[i].framework]

(***************************************************************************)
(* The server: POST /api/convert/:jobId requests for one job (ServerSpec). *)
(* Between its awaits a handler runs alone; the awaits after the converter *)
(* has resolved write the output directory only and are taken with the     *)
(* last part of the handler.                                               *)
(***************************************************************************)
\* the framework and language values of the request bodies
BodyFrameworks == {"playwright", "cypress", "selenium"}
BodyLanguages == {"javascript", "python"}

\* the trace file of the job
JobTrace == <<Ev("get", Str("https://a.test/x"))>>

\* require(`${framework}-converter.js`), new Converter() and
\* converter.convert(job.filePath, language) on the trace of the job
ConvertResult(fw, lang) ==
  IF fw = "playwright"
    THEN LET list == <<PlaywrightConvertStep(JobTrace[1], lang).step>>
         IN Returns([filename |-> PlaywrightGetFilename(lang),
                     content |-> PlaywrightGenerateTestFile(list, lang)])
  ELSE IF fw = "cypress"
    THEN LET list == <<CypressConvertStep(JobTrace[1], lang, Null, <<>>).step>>
         IN Returns([filename |-> CypressGetFilename(lang),
                     content |-> CypressGenerateTestFile(list, lang)])
  ELSE [throws |-> TRUE, value |-> [filename |-> "", content |-> <<>>]]

NoOutput == [filename |-> "", content |-> <<>>]
NoResponse == [code |-> 0, framework |-> "", language |-> ""]

\* POST /api/upload has stored the job
ServerInit ==
  /\ ConvIdle
  /\ SelIdle
  /\ SingleCall
  /\ ClientIdle
  /\ poll = NoPoll
  /\ job = [status |-> "analyzed", framework |-> "", language |-> "",
            output |-> NoOutput, error |-> FALSE]
  /\ requests = <<>>

nonServerVars == <<convVars, selVars, callVars, clientVars>>

\* a request arrives: the handler up to `await converter.convert(...)`, or
\* through its catch when the converter module cannot be loaded
ConvertRequest(fw, lang) ==
  /\ Len(requests) < MaxRequests
  /\ IF ConvertResult(fw, lang).throws
       THEN /\ job' = [job EXCEPT !.status = "failed", !.framework = fw,
                                  !.language = lang, !.error = TRUE]
            /\ requests' = Append(requests,
                 [framework |-> fw, language |-> lang, pc |-> "responded",
                  response |-> [code |-> 500, framework |-> "", language |-> ""]])
     ELSE /\ job' = [job EXCEPT !.status = "converting", !.framework = fw,
                                !.language = lang]
          /\ requests' = Append(requests,
               [framework |-> fw, language |-> lang, pc |-> "awaiting",
                response |-> NoResponse])
  /\ UNCHANGED poll
  /\ UNCHANGED nonServerVars

\* the converter of the i-th request has resolved: the output is written,
\* the job updated and the response sent
ConvertResolves(i) ==
  /\ i \in 1..Len(requests)
  /\ requests[i].pc = "awaiting"
  /\ LET converted == ConvertResult(requests[i].framework, requests[i].language).value
     IN /\ job' = [job EXCEPT !.status = "completed", !.output = converted]
        /\ requests' = [requests EXCEPT ![i].pc = "responded",
                          ![i].response = [code |-> 200,
                                           framework |-> job.framework,
                                           language |-> job.language]]
  /\ UNCHANGED poll
  /\ UNCHANGED nonServerVars

\* the converter of the i-th request, or a write of its output, has
\* rejected: the catch of the handler
ConvertRejects(i) ==
  /\ i \in 1..Len(requests)
  /\ requests[i].pc = "awaiting"
  /\ job' = [job EXCEPT !.status = "failed", !.error = TRUE]
  /\ requests' = [requests EXCEPT ![i].pc = "responded",
                    ![i].response = [code |-> 500, framework |-> "", language |-> ""]]
  /\ UNCHANGED poll
  /\ UNCHANGED nonServerVars

ServerNext ==
  \/ \E fw \in BodyFrameworks, lang \in BodyLanguages : ConvertRequest(fw, lang)
  \/ \E i \in 1..MaxRequests : ConvertResolves(i)
  \/ \E i \in 1..MaxRequests : ConvertRejects(i)

ServerSpec == ServerInit /\ [][ServerNext]_vars

\* C29: whenever the status of the job is completed, its stored output
\* (filename and content) is what the converter produces for the stored
\* framework and language of the job, and every successful response
\* reports the framework and language of its own request.
C29_OutputOfStoredPair ==
  /\ job.status = "completed"
       => /\ ~ ConvertResult(job.framework, job.language).throws
          /\ job.output = ConvertResult(job.framework, job.language).value
  /\ \A i \in 1..Len(requests) :
       requests[i].response.code = 200
         => /\ requests[i].response.framework = requests[i].framework
            /\ requests[i].response.language = requests[i].language

(***************************************************************************)
(* The execution of a generated test: POST /api/execute/:jobId, the events *)
(* of the spawned process and the polling loop of the client (ExecSpec).   *)
(***************************************************************************)
\* const maxAttempts = 30
maxAttempts == 30

NoExecution == [success |-> FALSE, exitCode |-> 0]

\* a job as POST /api/upload stores it, or as a conversion has left it
ExecInit ==
  /\ ConvIdle
  /\ SelIdle
  /\ SingleCall
  /\ ClientIdle
  /\ poll = NoPoll
  /\ requests = <<>>
  /\ \/ job = [status |-> "analyzed", framework |-> "", language |-> "",
               output |-> NoOutput, error |-> FALSE, execution |-> NoExecution]
     \/ \E fw \in {"playwright", "cypress"}, lang \in BodyLanguages :
          job = [status |-> "completed", framework |-> fw, language |-> lang,
                 output |-> ConvertResult(fw, lang).value, error |-> FALSE,
                 execution |-> NoExecution]

\* executeTest posts the request; the handler finds no output and answers
\* 404, or sets the status and awaits the installation
ExecuteRequest ==
  /\ requests = <<>>
  /\ IF job.output = NoOutput
       THEN /\ requests' = <<[pc |-> "responded", code |-> 404]>>
            /\ UNCHANGED job
     ELSE /\ requests' = <<[pc |-> "installing", code |-> 0]>>
          /\ job' = [job EXCEPT !.status = "executing"]
  /\ UNCHANGED poll
  /\ UNCHANGED nonServerVars

\* the installation rejects: the handler answers 500
InstallFails ==
  /\ requests # <<>>
  /\ requests[1].pc = "installing"
  /\ job' = [job EXCEPT !.status = "failed", !.error = TRUE]
  /\ requests' = <<[pc |-> "responded", code |-> 500]>>
  /\ UNCHANGED poll
  /\ UNCHANGED nonServerVars

\* the installation resolves: the test is spawned, its listeners are
\* registered and the handler answers that the execution has started
SpawnExecution ==
  /\ requests # <<>>
  /\ requests[1].pc = "installing"
  /\ requests' = <<[pc |-> "spawned", code |-> 200]>>
  /\ UNCHANGED <<job, poll>>
  /\ UNCHANGED nonServerVars

\* executeTest after its fetch: pollExecutionResults() on a 200 response
StartPolling ==
  /\ requests # <<>>
  /\ requests[1].code = 200
  /\ poll.state = "idle"
  /\ poll' = [state |-> "polling", attempts |-> 0, report |-> ""]
  /\ UNCHANGED <<job, requests>>
  /\ UNCHANGED nonServerVars

\* execution.on('error')
ExecutionError ==
  /\ requests # <<>>
  /\ requests[1].pc = "spawned"
  /\ job' = [job EXCEPT !.status = "execution_failed",
                        !.execution = [success |-> FALSE, exitCode |-> -1]]
  /\ requests' = <<[pc |-> "errored", code |-> 200]>>
  /\ UNCHANGED poll
  /\ UNCHANGED nonServerVars

\* execution.on('close'), after a run or after a spawn error
ExecutionClose(exitCode) ==
  /\ requests # <<>>
  /\ requests[1].pc \in {"spawned", "errored"}
  /\ requests[1].pc = "errored" => exitCode # 0
  /\ job' = [job EXCEPT !.status = "execution_completed",
                        !.execution = [success |-> exitCode = 0, exitCode |-> exitCode]]
  /\ requests' = <<[pc |-> "closed", code |-> 200]>>
  /\ UNCHANGED poll
  /\ UNCHANGED nonServerVars

\* poll: GET /api/job/:jobId is answered with the job
Poll ==
  /\ poll.state = "polling"
  /\ IF job.status = "execution_completed"
       THEN poll' = [poll EXCEPT !.state = "stopped", !.report = "results"]
     ELSE IF job.status = "failed"
       THEN poll' = [poll EXCEPT !.state = "stopped", !.report = "Execution failed"]
     ELSE IF poll.attempts + 1 < maxAttempts
       THEN poll' = [poll EXCEPT !.attempts = poll.attempts + 1]
     ELSE poll' = [poll EXCEPT !.attempts = poll.attempts + 1, !.state = "stopped",
                               !.report = "Execution timeout"]
  /\ UNCHANGED <<job, requests>>
  /\ UNCHANGED nonServerVars

\* poll: the request fails, the catch of poll
PollFails ==
  /\ poll.state = "polling"
  /\ poll' = [poll EXCEPT !.state = "stopped",
                          !.report = "Failed to get execution results"]
  /\ UNCHANGED <<job, requests>>
  /\ UNCHANGED nonServerVars

ExecNext ==
  \/ ExecuteRequest
  \/ InstallFails
  \/ SpawnExecution
  \/ StartPolling
  \/ ExecutionError
  \/ \E exitCode \in {0, 1} : ExecutionClose(exitCode)
  \/ Poll
  \/ PollFails

ExecSpec == ExecInit /\ [][ExecNext]_vars

\* the execution has reached a terminal status
TerminalStatus == job.status \in {"execution_completed", "execution_failed"}
\* this step is a poll that got its answer
Answered == poll' # poll /\ poll.state = "polling"
              /\ poll'.report # "Failed to get execution results"

\* C30: a poll that finds the job in a terminal execution status
\* (execution_completed or execution_failed) ends the loop and reports that
\* outcome, and the loop reports the timeout only at a poll that finds no
\* terminal status.
C30_PollStopsAtTerminal ==
  [][Answered
       => /\ TerminalStatus
               => /\ poll'.state = "stopped"
                  /\ poll'.report = IF job.status = "execution_completed"
                                      THEN "results" ELSE "Execution failed"
          /\ poll'.report = "Execution timeout" => ~ TerminalStatus]_vars

====
